---- MODULE Spec2Model ----
(***************************************************************************)
(* A model of the fin_review analytics core: the DataNormalizer, the KPI   *)
(* calculator, the aging analyzer, the anomaly detector and the financial  *)
(* ratio analyzer.                                                         *)
(*                                                                         *)
(* A pandas DataFrame is a record [columns, rows]: the set of its column   *)
(* names and the sequence of its rows.  Every row carries every field of   *)
(* the canonical table; a field whose column is not in `columns` holds a   *)
(* blank.  A numeric or date cell is [nan, val]: NaN / NaT is nan = TRUE.  *)
(* Dates are day numbers counted from 2024-01-01 (day 1).  Amounts are     *)
(* integers (cents); where the code divides, the model keeps the exact     *)
(* fraction or cross-multiplies.                                           *)
(***************************************************************************)
EXTENDS Integers, Sequences, FiniteSets, TLC

VARIABLES
    transactions,   \* the caller's transaction DataFrame (fagl_df)
    mapping_df,     \* the caller's mapping DataFrame
    config,         \* the configuration dictionary
    normalizer,     \* the DataNormalizer instance under study, or NoNormalizer
    runs,           \* results of the normalize_data + calculate_kpis runs so far
    canonical,      \* the pipeline's normalized_df handed to the engines, or NoResult
    aging_result,   \* result of AgingAnalyzer.analyze_all, or NoResult
    anomaly_result, \* result of AnomalyDetector.detect_all, or NoResult
    ratio_name,     \* the ratio _determine_status is applied to
    ratio_values,   \* the values of that ratio, in thousandths
    ratio_statuses, \* the statuses _determine_status returned for them so far
    sub_scores,     \* liquidity, solvency and cash-flow score, or NoResult
    overall,        \* overall score and status of the going concern, or NoResult
    mapped_df,      \* the mapped transactions handed to FinancialRatioAnalyzer.analyze
    analyzer,       \* the FinancialRatioAnalyzer instance: self.ratios, calls so far
    analysis,       \* what the last analyze call returned, or NoResult
    loaded_df,      \* the outcome of load_fagl_data, or NoResult
    cli,            \* the run of main: position, loaded tables, steps executed
    engine_runs     \* the engine runs on the canonical table so far

vars == <<transactions, mapping_df, config, normalizer, runs, canonical, aging_result,
          anomaly_result, ratio_name, ratio_values, ratio_statuses, sub_scores,
          overall, mapped_df, analyzer, analysis, loaded_df, cli,
          engine_runs>>

normVars  == <<transactions, mapping_df, config, normalizer, runs>>
agingVars == <<canonical, aging_result>>
anomVars  == <<anomaly_result>>
cliVars   == <<loaded_df, cli, engine_runs>>
ratioVars == <<ratio_name, ratio_values, ratio_statuses, sub_scores, overall,
               mapped_df, analyzer, analysis>>

(***************************************************************************)
(* Bounds of the model.                                                    *)
(***************************************************************************)
MaxRows  == 2   \* rows of a transaction table
MaxCalls == 2   \* normalize() calls on one DataNormalizer
MaxRuns  == 2   \* normalize_data + calculate_kpis runs on the same inputs
MaxApplicable == 3   \* applicable ratios of one category
MaxAnalyses == 2     \* analyze() calls on one FinancialRatioAnalyzer

(***************************************************************************)
(* Cells, sequences.                                                       *)
(***************************************************************************)
NaN == [nan |-> TRUE, val |-> 0]

Num(x) == [nan |-> FALSE, val |-> x]

Neg(c) == IF c.nan THEN c ELSE Num(-c.val)

NotNa(c) == ~c.nan

NonZero(c) == c.nan \/ c.val # 0

Abs(x) == IF x < 0 THEN -x ELSE x

Range(s) == {s[i] : i \in 1..Len(s)}

RECURSIVE SeqSum(_)
SeqSum(s) == IF s = <<>> THEN 0 ELSE Head(s) + SeqSum(Tail(s))

SeqsUpTo(S, n) == UNION {[1..k -> S] : k \in 1..n}

NoResult == [none |-> TRUE]

(***************************************************************************)
(* The calendar of 2024 and 2025, for posting_date.dt.year / month / ...   *)
(***************************************************************************)
MonthEnds ==
    <<31, 60, 91, 121, 152, 182, 213, 244, 274, 305, 335, 366,
      397, 425, 456, 486, 517, 547, 578, 609, 639, 670, 700, 731>>

MonthIndex(d) == CHOOSE m \in 1..24 :
                     /\ d <= MonthEnds[m]
                     /\ \A k \in 1..24 : d <= MonthEnds[k] => m <= k

Year(d) == 2024 + ((MonthIndex(d) - 1) \div 12)

Month(d) == ((MonthIndex(d) - 1) % 12) + 1

Quarter(d) == ((Month(d) - 1) \div 3) + 1

YearMonth(d) == (Year(d) - 1970) * 12 + (Month(d) - 1)

YearQuarter(d) == (Year(d) - 1970) * 4 + (Quarter(d) - 1)

DayOfWeek(d) == (d - 1) % 7

WeekOfYear(d) == IF d >= 729 THEN 1
                 ELSE IF d >= 365 THEN ((d - 365) \div 7) + 1
                 ELSE ((d - 1) \div 7) + 1

(***************************************************************************)
(* DataFrames.                                                             *)
(***************************************************************************)
RawColumns == {"posting_date", "doc_id", "gl_account", "amount", "open_amount"}

RawRow(gl, amt, open, post, due) ==
    [posting_date |-> post, doc_id |-> "DOC", gl_account |-> gl,
     amount |-> amt, open_amount |-> open, due_date |-> due,
     year |-> 0, quarter |-> 0, month |-> 0, year_month |-> 0,
     year_quarter |-> 0, day_of_week |-> 0, week_of_year |-> 0,
     bucket |-> "", type |-> "", entity_mapped |-> "None", is_mapped |-> FALSE,
     is_receivable |-> FALSE, is_payable |-> FALSE, is_revenue |-> FALSE,
     is_opex |-> FALSE, is_payroll |-> FALSE,
     days_overdue |-> NaN, is_overdue |-> FALSE]

MapRows(df, F(_)) ==
    [df EXCEPT !.rows = [i \in 1..Len(df.rows) |-> F(df.rows[i])]]

WithColumns(df, cols) == [df EXCEPT !.columns = df.columns \cup cols]

(***************************************************************************)
(* DataNormalizer.                                                         *)
(***************************************************************************)
NoNormalizer == [none |-> TRUE]

\* __init__ keeps its own copy of the caller's table: self.fagl_df = fagl_df.copy().
\* `shared` says whether self.fagl_df is the caller's object.
InitFaglDfNoCopy(fagl_df) == [df |-> fagl_df, shared |-> TRUE]

InitFaglDf(fagl_df) == [df |-> fagl_df, shared |-> FALSE]

\* A lookup that never finds the key.
ConfigGetDefault(cfg, key, default) == default

ConfigGet(cfg, key, default) == IF key \in DOMAIN cfg THEN cfg[key] ELSE default

\* A normalizer that leaves the signs as they come.
NormalizeAmountsKeepSign(df, cfg) == df

NormalizeAmounts(df, cfg) ==
    LET convention == ConfigGet(cfg, "amount_sign_convention", "positive_debit")
        flip(r) == [r EXCEPT !.amount = Neg(r.amount),
                             !.open_amount = IF "open_amount" \in df.columns
                                             THEN Neg(r.open_amount)
                                             ELSE r.open_amount]
    IN  IF convention = "positive_credit" THEN MapRows(df, flip) ELSE df

AddTemporalFeatures(df) ==
    LET add(r) == [r EXCEPT !.year = Year(r.posting_date),
                            !.quarter = Quarter(r.posting_date),
                            !.month = Month(r.posting_date),
                            !.year_month = YearMonth(r.posting_date),
                            !.year_quarter = YearQuarter(r.posting_date),
                            !.day_of_week = DayOfWeek(r.posting_date),
                            !.week_of_year = WeekOfYear(r.posting_date)]
    IN  WithColumns(MapRows(df, add),
                    {"year", "quarter", "month", "year_month", "year_quarter",
                     "day_of_week", "week_of_year"})

\* mapping_dict: the loop over mapping_df.iterrows(); a later row of the same
\* gl_account overwrites an earlier one.
MappingDict(m) ==
    LET keys == {m.rows[i].gl_account : i \in 1..Len(m.rows)}
        last(k) == CHOOSE i \in 1..Len(m.rows) :
                      /\ m.rows[i].gl_account = k
                      /\ \A j \in 1..Len(m.rows) : m.rows[j].gl_account = k => j <= i
    IN  [k \in keys |-> [bucket |-> m.rows[last(k)].bucket,
                         type |-> m.rows[last(k)].type,
                         entity_mapped |-> m.rows[last(k)].entity]]

IsMapped(bucket) == bucket # "Unmapped"

MergeMapping(df, m) ==
    LET mapping_dict == MappingDict(m)
        found(x) == x \in DOMAIN mapping_dict
        bucket(x) == IF found(x) THEN mapping_dict[x].bucket ELSE "Unmapped"
        merge(r) == [r EXCEPT
                       !.bucket = bucket(r.gl_account),
                       !.type = IF found(r.gl_account)
                                THEN mapping_dict[r.gl_account].type ELSE "Other",
                       !.entity_mapped = IF found(r.gl_account)
                                         THEN mapping_dict[r.gl_account].entity_mapped
                                         ELSE "None",
                       !.is_mapped = IsMapped(bucket(r.gl_account))]
    IN  WithColumns(MapRows(df, merge), {"bucket", "type", "entity_mapped", "is_mapped"})

EnrichArApFlags(df) ==
    LET flag(r) == [r EXCEPT !.is_receivable = (r.type = "Receivable"),
                             !.is_payable = (r.type = "Payable"),
                             !.is_revenue = (r.type = "Revenue"),
                             !.is_opex = (r.type = "OPEX"),
                             !.is_payroll = (r.type = "Payroll")]
    IN  WithColumns(MapRows(df, flag),
                    {"is_receivable", "is_payable", "is_revenue", "is_opex", "is_payroll"})

\* A current date taken from the clock: 2025-02-03, after every posting.
WallClockDate(df) == 400

MaxPostingDate(df) ==
    CHOOSE d \in {df.rows[i].posting_date : i \in 1..Len(df.rows)} :
        \A i \in 1..Len(df.rows) : df.rows[i].posting_date <= d

CalculateOverdue(df, cfg) ==
    LET current_date == MaxPostingDate(df)
        overdue_threshold == ConfigGet(cfg, "overdue_threshold_days", 0)
        days(r) == IF r.due_date.nan THEN NaN ELSE Num(current_date - r.due_date.val)
        late(r) == ~days(r).nan /\ days(r).val > overdue_threshold
        skip(r) == [r EXCEPT !.days_overdue = Num(0), !.is_overdue = FALSE]
        calc(r) == [r EXCEPT
                      !.days_overdue = days(r),
                      !.is_overdue = IF "open_amount" \in df.columns
                                     THEN /\ late(r)
                                          /\ NotNa(r.open_amount)
                                          /\ r.open_amount.val # 0
                                     ELSE late(r)]
    IN  WithColumns(IF "due_date" \notin df.columns
                    THEN MapRows(df, skip) ELSE MapRows(df, calc),
                    {"days_overdue", "is_overdue"})

\* normalize(): the five steps in the order of the code.
NormalizeDf(df, m, cfg) ==
    CalculateOverdue(
        EnrichArApFlags(
            MergeMapping(
                AddTemporalFeatures(
                    NormalizeAmounts(df, cfg)), m)), cfg)

(***************************************************************************)
(* KPICalculator.                                                          *)
(***************************************************************************)
Frac(n, d) == [num |-> n, den |-> d]

RECURSIVE SumAmounts(_, _)
SumAmounts(rows, I) ==
    IF I = {} THEN 0
    ELSE LET i == CHOOSE x \in I : TRUE
         IN  rows[i].amount.val + SumAmounts(rows, I \ {i})

\* df[P]['amount'].sum(): NaN amounts are skipped.
SumWhere(rows, P(_)) ==
    SumAmounts(rows, {i \in 1..Len(rows) : P(rows[i]) /\ ~rows[i].amount.nan})

CountWhere(rows, P(_)) == Cardinality({i \in 1..Len(rows) : P(rows[i])})

\* The ascending sequence of the elements of a finite set of integers.
RECURSIVE SortedSeq(_)
SortedSeq(S) ==
    IF S = {} THEN <<>>
    ELSE LET lo == CHOOSE x \in S : \A y \in S : x <= y
         IN  <<lo>> \o SortedSeq(S \ {lo})

Pct(n, d) == IF d # 0 THEN Frac(n * 100, d) ELSE Frac(0, 1)

CalculateMonthlyKpis(df) ==
    LET types == {df.rows[i].type : i \in 1..Len(df.rows)}
        months == SortedSeq({df.rows[i].year_month : i \in 1..Len(df.rows)})
        cell(ym, t) ==
            LET in(r) == r.year_month = ym /\ r.type = t
            IN  IF CountWhere(df.rows, in) = 0 THEN 0 ELSE SumWhere(df.rows, in)
        col(ym, t) == IF t \in types THEN cell(ym, t) ELSE 0
        line(ym) ==
            LET revenue == col(ym, "Revenue")
                opex == col(ym, "OPEX")
                payroll == col(ym, "Payroll")
            IN  [year_month |-> ym,
                 by_type |-> [t \in types |-> cell(ym, t)],
                 revenue |-> revenue, opex |-> opex, payroll |-> payroll,
                 gross_profit |-> revenue - opex,
                 gross_margin_pct |-> Pct(revenue - opex, revenue),
                 opex_ratio |-> Pct(opex, revenue),
                 payroll_ratio |-> Pct(payroll, revenue),
                 payroll_of_opex |-> Pct(payroll, opex)]
    IN  [i \in 1..Len(months) |-> line(months[i])]

CalculateSummaryKpis(df) ==
    LET types == {df.rows[i].type : i \in 1..Len(df.rows)}
        buckets == {df.rows[i].bucket : i \in 1..Len(df.rows)}
        ofType(t) == LET in(r) == r.type = t IN SumWhere(df.rows, in)
        nOfType(t) == LET in(r) == r.type = t IN CountWhere(df.rows, in)
        ofBucket(b) == LET in(r) == r.bucket = b IN SumWhere(df.rows, in)
        all(r) == TRUE
        by_type == [t \in types |-> ofType(t)]
        get(t) == IF t \in types THEN by_type[t] ELSE 0
        total_revenue == get("Revenue")
        total_opex == get("OPEX")
        total_payroll == get("Payroll")
        total_expenses == total_opex + total_payroll
        net_profit == total_revenue - total_expenses
        dates == {df.rows[i].posting_date : i \in 1..Len(df.rows)}
    IN  [total_by_type |-> by_type,
         total_revenue |-> total_revenue,
         total_opex |-> total_opex,
         total_payroll |-> total_payroll,
         total_expenses |-> total_expenses,
         net_profit |-> net_profit,
         net_margin_pct |-> Pct(net_profit, total_revenue),
         top_10_buckets |-> [b \in buckets |-> Abs(ofBucket(b))],
         total_transactions |-> Len(df.rows),
         transactions_by_type |-> [t \in types |-> nOfType(t)],
         avg_transaction_size |-> Frac(SumWhere(df.rows, all), Len(df.rows)),
         start_date |-> CHOOSE d \in dates : \A e \in dates : d <= e,
         end_date |-> CHOOSE d \in dates : \A e \in dates : e <= d]

\* Python's None, and a key a dict does not hold.
None == [none |-> TRUE]

Value(num, den) == [none |-> FALSE, num |-> num, den |-> den]

CagrGuardNone(first_value, last_value) == TRUE

\* `if first_value > 0 and last_value > 0` in front of the CAGR.
CagrGuard(first_value, last_value) == first_value > 0 /\ last_value > 0

\* The latest month-over-month and year-over-year changes and the CAGR; a
\* zero previous month is the fraction with denominator 0 (pandas' inf /
\* NaN), never an exception.  The CAGR (base ** (1 / periods) - 1) * 100 is
\* kept as its base last_value / first_value and its periods len / 12.  The
\* averages are left out.
CalculateGrowthMetrics(monthly_kpis) ==
    LET n == Len(monthly_kpis)
        first_value == monthly_kpis[1].revenue
        last_value == monthly_kpis[n].revenue
    IN  IF n < 2 THEN [empty |-> TRUE]
        ELSE [empty |-> FALSE,
              latest_revenue_mom |->
                  Frac((monthly_kpis[n].revenue - monthly_kpis[n - 1].revenue) * 100,
                       monthly_kpis[n - 1].revenue),
              latest_revenue_yoy |->
                  IF n >= 13
                  THEN Value((monthly_kpis[n].revenue - monthly_kpis[n - 12].revenue)
                                 * 100,
                             monthly_kpis[n - 12].revenue)
                  ELSE None,
              revenue_cagr |->
                  IF n >= 12 /\ CagrGuard(first_value, last_value)
                  THEN [none |-> FALSE,
                        base |-> Frac(last_value, first_value),
                        periods |-> Frac(n, 12)]
                  ELSE None,
              latest_opex_mom |->
                  Frac((monthly_kpis[n].opex - monthly_kpis[n - 1].opex) * 100,
                       monthly_kpis[n - 1].opex)]

CalculateRatios(monthly_kpis) ==
    LET n == Len(monthly_kpis)
    IN  IF n = 0 THEN [empty |-> TRUE]
        ELSE [empty |-> FALSE,
              latest_gross_margin |-> monthly_kpis[n].gross_margin_pct,
              latest_opex_ratio |-> monthly_kpis[n].opex_ratio,
              latest_payroll_ratio |-> monthly_kpis[n].payroll_ratio]

\* calculate_kpis(df, config): KPICalculator(df, config).calculate_all().
CalculateAll(df, cfg) ==
    LET monthly_kpis == CalculateMonthlyKpis(df)
    IN  [monthly_kpis |-> monthly_kpis,
         summary_kpis |-> CalculateSummaryKpis(df),
         growth_metrics |-> IF ConfigGet(cfg, "enable_growth_metrics", TRUE)
                            THEN CalculateGrowthMetrics(monthly_kpis)
                            ELSE [empty |-> TRUE],
         ratios |-> IF ConfigGet(cfg, "enable_ratios", TRUE)
                    THEN CalculateRatios(monthly_kpis)
                    ELSE [empty |-> TRUE]]

(***************************************************************************)
(* AgingAnalyzer.                                                          *)
(***************************************************************************)
AgingBucket(min_days, max_days, label) ==
    [min_days |-> min_days, max_days |-> max_days, label |-> label]

DefaultAgingBuckets ==
    <<AgingBucket(0, 0, "Current"),
      AgingBucket(1, 30, "0-30 days"),
      AgingBucket(31, 60, "31-60 days"),
      AgingBucket(61, 90, "61-90 days"),
      AgingBucket(91, 999999, ">90 days")>>

InBucketExclusiveMax(days, b) ==
    ~days.nan /\ days.val >= b.min_days /\ days.val < b.max_days

\* mask = (days_overdue >= min_days) & (days_overdue <= max_days); a NaN
\* days_overdue compares False.
InBucket(days, b) ==
    ~days.nan /\ days.val >= b.min_days /\ days.val <= b.max_days

\* The loop over self.aging_buckets: a later bucket overwrites an earlier one.
RECURSIVE AssignLoop(_, _, _, _)
AssignLoop(days, buckets, i, label) ==
    IF i > Len(buckets) THEN label
    ELSE AssignLoop(days, buckets, i + 1,
                    IF InBucket(days, buckets[i]) THEN buckets[i].label ELSE label)

AssignAgingBucket(days, buckets) == AssignLoop(days, buckets, 1, "Unknown")

RECURSIVE SumOpen(_, _)
SumOpen(items, I) ==
    IF I = {} THEN 0
    ELSE LET i == CHOOSE x \in I : TRUE
         IN  items[i].open_amount + SumOpen(items, I \ {i})

RECURSIVE SumField(_, _)
SumField(lines, I) ==
    IF I = {} THEN [amount |-> 0, count |-> 0]
    ELSE LET i == CHOOSE x \in I : TRUE
             rest == SumField(lines, I \ {i})
         IN  [amount |-> lines[i].outstanding_amount + rest.amount,
              count |-> lines[i].item_count + rest.count]

\* str.contains('Current') over the labels an aging table can hold.
ContainsCurrent(label) == label \in {"Current"}

\* _assign_aging_buckets: the table keeps its days_overdue column when it has
\* one; without it the days are counted from due_date and, when no item has
\* a due date, from posting_date + 30 days (a warning is logged).
UsesDefaultDue(df, open) ==
    /\ "days_overdue" \notin df.columns
    /\ ~("due_date" \in df.columns /\ \E i \in open : NotNa(df.rows[i].due_date))

AgingDaysOverdue(df, open, i) ==
    IF "days_overdue" \in df.columns THEN df.rows[i].days_overdue
    ELSE IF ~UsesDefaultDue(df, open)
    THEN IF df.rows[i].due_date.nan THEN NaN
         ELSE Num(MaxPostingDate(df) - df.rows[i].due_date.val)
    ELSE Num(MaxPostingDate(df) - (df.rows[i].posting_date + 30))

\* _analyze_ar / _analyze_ap (the two bodies differ in the flag they filter
\* on): `flag` is "is_receivable" or "is_payable".
AnalyzeSide(df, buckets, flag) ==
    LET side == {i \in 1..Len(df.rows) :
                    IF flag = "is_receivable" THEN df.rows[i].is_receivable
                                              ELSE df.rows[i].is_payable}
        open == {i \in side : /\ NotNa(df.rows[i].open_amount)
                              /\ df.rows[i].open_amount.val # 0}
        idx == SortedSeq(open)
        items == [k \in 1..Len(idx) |->
                    [row |-> idx[k],
                     open_amount |-> df.rows[idx[k]].open_amount.val,
                     days_overdue |-> AgingDaysOverdue(df, open, idx[k]),
                     aging_bucket |-> AssignAgingBucket(AgingDaysOverdue(df, open, idx[k]),
                                                        buckets)]]
        labels == {items[k].aging_bucket : k \in 1..Len(items)}
        of(l) == {k \in 1..Len(items) : items[k].aging_bucket = l}
        bucket_order == [i \in 1..Len(buckets) |-> buckets[i].label]
        configured == {i \in 1..Len(buckets) :
                          /\ bucket_order[i] \in labels
                          /\ \A j \in 1..Len(buckets) :
                                 bucket_order[j] = bucket_order[i] => j <= i}
        ordered == [k \in 1..Cardinality(configured) |->
                       bucket_order[SortedSeq(configured)[k]]]
                   \o (IF \E l \in labels : l \notin Range(bucket_order)
                       THEN <<"Unknown">> ELSE <<>>)
        total_outstanding == SumOpen(items, 1..Len(items))
        line(l) == [aging_bucket |-> l,
                    outstanding_amount |-> SumOpen(items, of(l)),
                    item_count |-> Cardinality(of(l)),
                    pct_of_total |-> Pct(SumOpen(items, of(l)), total_outstanding)]
        aging_summary == [k \in 1..Len(ordered) |-> line(ordered[k])]
        overdue_amount ==
            SumField(aging_summary,
                     {k \in 1..Len(aging_summary) :
                         ~ContainsCurrent(aging_summary[k].aging_bucket)}).amount
    IN  IF side = {}
        THEN [items |-> <<>>, aging |-> <<>>, warnings |-> {},
              summary |-> [total_outstanding |-> 0, item_count |-> 0]]
        ELSE [items |-> items,
              aging |-> aging_summary,
              warnings |-> IF UsesDefaultDue(df, open)
                           THEN {"No due_date available, using posting_date + 30 days"}
                           ELSE {},
              summary |-> [total_outstanding |-> total_outstanding,
                           item_count |-> SumField(aging_summary,
                                                   1..Len(aging_summary)).count,
                           overdue_amount |-> overdue_amount,
                           overdue_pct |-> Pct(overdue_amount, total_outstanding)]]

\* self.df[self.df['is_overdue'] == True], sorted by days_overdue descending:
\* the rows as (days_overdue, row) pairs.
GetOverdueItems(df) ==
    {<<df.rows[i].days_overdue.val, i>> : i \in {j \in 1..Len(df.rows) :
                                                    df.rows[j].is_overdue}}

\* AgingAnalyzer(df, config).analyze_all().  The tables of the model have no
\* customer_vendor column, so _get_top_overdue returns an empty frame.
AnalyzeAll(df, cfg) ==
    LET aging_buckets == ConfigGet(cfg, "aging_buckets", DefaultAgingBuckets)
        ar == AnalyzeSide(df, aging_buckets, "is_receivable")
        ap == AnalyzeSide(df, aging_buckets, "is_payable")
    IN  [none |-> FALSE,
         aging_buckets |-> aging_buckets,
         ar_items |-> ar.items, ar_aging |-> ar.aging, ar_summary |-> ar.summary,
         ap_items |-> ap.items, ap_aging |-> ap.aging, ap_summary |-> ap.summary,
         overdue_items |-> GetOverdueItems(df),
         warnings |-> ar.warnings \cup ap.warnings,
         top_overdue_customers |-> <<>>,
         top_overdue_vendors |-> <<>>]

(***************************************************************************)
(* AnomalyDetector.  A score is [num, den, root] with den > 0: the value   *)
(* num/den (root = 1) or its non-negative square root (root = 2).          *)
(***************************************************************************)
Score(num, den, root) == [num |-> num, den |-> den, root |-> root]

\* score > c and score < c for a constant c = Frac(num, den), den > 0.
ScoreGt(s, c) ==
    IF s.root = 2
    THEN c.num < 0 \/ s.num * c.den * c.den > c.num * c.num * s.den
    ELSE s.num * c.den > c.num * s.den

ScoreLt(s, c) ==
    IF s.root = 2
    THEN c.num > 0 /\ s.num * c.den * c.den < c.num * c.num * s.den
    ELSE s.num * c.den < c.num * s.den

ScoreAbs(s) == [s EXCEPT !.num = Abs(s.num)]

StrictZscoreThreshold == Frac(7, 2)

DefaultZscoreThreshold == Frac(3, 1)

DefaultMadThreshold == Frac(7, 2)

\* contamination=0.1 of the IsolationForest.
Contamination == Frac(1, 10)

SeverityOrder(severity) ==
    CASE severity = "high" -> 0 [] severity = "medium" -> 1 [] severity = "low" -> 2

DetermineSeverity(score, method) ==
    IF method = "zscore"
    THEN IF ScoreGt(score, Frac(4, 1)) THEN "high"
         ELSE IF ScoreGt(score, Frac(7, 2)) THEN "medium" ELSE "low"
    ELSE IF method = "mad"
    THEN IF ScoreGt(score, Frac(5, 1)) THEN "high"
         ELSE IF ScoreGt(score, Frac(4, 1)) THEN "medium" ELSE "low"
    ELSE IF method = "isolation_forest"
    THEN IF ScoreLt(score, Frac(-3, 10)) THEN "high"
         ELSE IF ScoreLt(score, Frac(-2, 10)) THEN "medium" ELSE "low"
    ELSE "low"

\* The strings of the model in Python's string order, for sorts on labels.
Labels ==
    <<"OPEX", "OPEX - Marketing", "Other", "Receivable", "Receivables - Customers",
      "Revenue", "Revenue - Product A", "Unmapped">>

LabelRank(l) == CHOOSE i \in 1..Len(Labels) : Labels[i] = l

\* row['year_month'].strftime('%Y-%m') and pd.to_datetime(date).to_period('M')
FormatYearMonth(ym) == <<1970 + (ym \div 12), (ym % 12) + 1>>

ParseYearMonth(date) == (date[1] - 1970) * 12 + (date[2] - 1)

\* A function on 1..n as an explicit sequence.
List(f) == <<>> \o f

\* The groupby key (year_month, bucket, type) of a row as one number, ordered
\* as pandas orders the groups.
GroupCode(r) == (r.year_month * 10 + LabelRank(r.bucket)) * 10 + LabelRank(r.type)

MonthlyRow(df, codes, c) ==
    [year_month |-> c \div 100,
     bucket |-> Labels[(c \div 10) % 10],
     type |-> Labels[c % 10],
     amount |-> SumAmounts(df.rows, {i \in 1..Len(codes) : codes[i] = c})]

\* df.groupby(['year_month', 'bucket', 'type'])['amount'].sum().reset_index()
Monthly(df) ==
    LET codes == List([i \in 1..Len(df.rows) |-> GroupCode(df.rows[i])])
        order == SortedSeq(Range(codes))
    IN  List([k \in 1..Len(order) |-> MonthlyRow(df, codes, order[k])])

\* monthly['bucket'].unique(): the labels in order of first appearance.
RECURSIVE Unique(_, _)
Unique(s, seen) ==
    IF s = <<>> THEN <<>>
    ELSE IF Head(s) \in seen THEN Unique(Tail(s), seen)
    ELSE <<Head(s)>> \o Unique(Tail(s), seen \cup {Head(s)})

Buckets(monthly) == Unique([k \in 1..Len(monthly) |-> monthly[k].bucket], {})

BucketData(monthly, bucket) == SelectSeq(monthly, LAMBDA m : m.bucket = bucket)

AmountsOf(bucket_data) == List([k \in 1..Len(bucket_data) |-> bucket_data[k].amount])

RECURSIVE InsertSorted(_, _)
InsertSorted(x, s) ==
    IF s = <<>> THEN <<x>>
    ELSE IF x <= Head(s) THEN <<x>> \o s
    ELSE <<Head(s)>> \o InsertSorted(x, Tail(s))

RECURSIVE SortValues(_)
SortValues(s) == IF s = <<>> THEN <<>> ELSE InsertSorted(Head(s), SortValues(Tail(s)))

\* Twice the median of a non-empty sequence of integers.
Median2(s) ==
    LET v == SortValues(s)
        n == Len(s)
    IN  IF n % 2 = 1 THEN 2 * v[(n + 1) \div 2] ELSE v[n \div 2] + v[(n \div 2) + 1]

RECURSIVE Flatten(_)
Flatten(ss) == IF ss = <<>> THEN <<>> ELSE Head(ss) \o Flatten(Tail(ss))

Anomaly(row, expected, deviation, deviation_pct, severity, method) ==
    [date |-> FormatYearMonth(row.year_month),
     bucket |-> row.bucket,
     type |-> row.type,
     amount |-> row.amount,
     expected_amount |-> expected,
     deviation |-> deviation,
     deviation_pct |-> deviation_pct,
     severity |-> severity,
     method |-> method,
     explanation |-> "None",
     top_contributors |-> "None"]

\* One bucket of _detect_zscore_anomalies.  With n values x of sum S, mean S/n
\* and sample standard deviation std (ddof = 1):
\*     (x[i] - mean) / std = dev[i] * sqrt(n - 1) / sqrt(ss)
\* where dev[i] = n * x[i] - S and ss is the sum of the dev[j] squared.
ZscoreOfBucket(bucket_data, zscore_threshold) ==
    LET x == AmountsOf(bucket_data)
        n == Len(x)
        S == SeqSum(x)
        dev == List([i \in 1..n |-> n * x[i] - S])
        ss == SeqSum([i \in 1..n |-> dev[i] * dev[i]])
        zscore(i) == Score(dev[i] * dev[i] * (n - 1), ss, 2)
        anomalous == SelectSeq([i \in 1..n |-> i],
                               LAMBDA i : ScoreGt(zscore(i), zscore_threshold))
    IN  IF n < 6 THEN <<>>
        ELSE IF ss = 0 THEN <<>>
        ELSE [k \in 1..Len(anomalous) |->
                 Anomaly(bucket_data[anomalous[k]],
                         Frac(S, n),
                         Frac(dev[anomalous[k]], n),
                         IF S # 0 THEN Frac(dev[anomalous[k]] * 100, Abs(S))
                                  ELSE Frac(0, 1),
                         DetermineSeverity(zscore(anomalous[k]), "zscore"),
                         "zscore")]

DetectZscoreAnomalies(df, zscore_threshold) ==
    LET monthly == Monthly(df)
        buckets == Buckets(monthly)
    IN  Flatten([b \in 1..Len(buckets) |->
                    ZscoreOfBucket(BucketData(monthly, buckets[b]), zscore_threshold)])

\* One bucket of _detect_mad_anomalies.  With median m and mad the median of
\* the |x[j] - m|:  0.6745 * (x[i] - m) / mad = 1349 * d[i] / (1000 * mad4)
\* where d[i] = 2 * x[i] - 2m and mad4 = 4 * mad.
MadOfBucket(bucket_data, mad_threshold) ==
    LET x == AmountsOf(bucket_data)
        n == Len(x)
        median2 == Median2(x)
        d == List([i \in 1..n |-> 2 * x[i] - median2])
        mad4 == Median2([i \in 1..n |-> Abs(d[i])])
        mad_score(i) == Score(1349 * d[i], 1000 * mad4, 1)
        anomalous == SelectSeq([i \in 1..n |-> i],
                               LAMBDA i : ScoreGt(ScoreAbs(mad_score(i)), mad_threshold))
    IN  IF n < 6 THEN <<>>
        ELSE IF mad4 = 0 THEN <<>>
        ELSE [k \in 1..Len(anomalous) |->
                 Anomaly(bucket_data[anomalous[k]],
                         Frac(median2, 2),
                         Frac(d[anomalous[k]], 2),
                         IF median2 # 0 THEN Frac(d[anomalous[k]] * 100, Abs(median2))
                                        ELSE Frac(0, 1),
                         DetermineSeverity(ScoreAbs(mad_score(anomalous[k])), "mad"),
                         "mad")]

DetectMadAnomalies(df, mad_threshold) ==
    LET monthly == Monthly(df)
        buckets == Buckets(monthly)
    IN  Flatten([b \in 1..Len(buckets) |->
                    MadOfBucket(BucketData(monthly, buckets[b]), mad_threshold)])

\* What IsolationForest(contamination=0.1, random_state=42) can return for n
\* points: the points whose score lies below the 10th percentile of the
\* scores (at most 1 + (n - 1) * contamination of them, rounded down) and a
\* score_samples value, which is negative; in hundredths.  The model lets
\* the forest pick among the first, the middle and the last month.
IsoScores == {-70, -40}

IsoCandidates(n) == {1, n \div 2, n}

RECURSIVE SubsetsUpTo(_, _)
SubsetsUpTo(S, k) ==
    IF k = 0 THEN {{}}
    ELSE LET smaller == SubsetsUpTo(S, k - 1)
         IN  smaller \cup {G \cup {i} : G \in smaller, i \in S}

IsoOutcomes(n) ==
    LET most == 1 + (((n - 1) * Contamination.num) \div Contamination.den)
    IN  {[is_anomaly |-> F, anomaly_score |-> Score(s, 100, 1)] :
            F \in SubsetsUpTo(IsoCandidates(n), most), s \in IsoScores}

NoForest == [is_anomaly |-> {}, anomaly_score |-> Score(-50, 100, 1)]

\* One bucket of _detect_isolation_forest_anomalies, given the forest's outcome.
IsolationForestOfBucket(bucket_data, forest) ==
    LET x == AmountsOf(bucket_data)
        n == Len(x)
        anomalous == SelectSeq([i \in 1..n |-> i], LAMBDA i : i \in forest.is_anomaly)
        normal == SelectSeq([i \in 1..n |-> i], LAMBDA i : i \notin forest.is_anomaly)
        normal_amounts == List([k \in 1..Len(normal) |-> x[normal[k]]])
        expected2 == IF Len(normal_amounts) > 0 THEN Median2(normal_amounts)
                                                ELSE Median2(x)
    IN  IF n < 10 THEN <<>>
        ELSE [k \in 1..Len(anomalous) |->
                 Anomaly(bucket_data[anomalous[k]],
                         Frac(expected2, 2),
                         Frac(2 * x[anomalous[k]] - expected2, 2),
                         IF expected2 # 0
                         THEN Frac((2 * x[anomalous[k]] - expected2) * 100,
                                   Abs(expected2))
                         ELSE Frac(0, 1),
                         DetermineSeverity(ScoreAbs(forest.anomaly_score),
                                           "isolation_forest"),
                         "isolation_forest")]

\* forests[b] is the outcome of the forest fitted on the b-th bucket.
DetectIsolationForestAnomalies(df, forests) ==
    LET monthly == Monthly(df)
        buckets == Buckets(monthly)
    IN  Flatten([b \in 1..Len(buckets) |->
                    IsolationForestOfBucket(BucketData(monthly, buckets[b]),
                                            forests[b])])

DedupKeyNoSeverity(a) ==
    ((a.date[1] * 100 + a.date[2]) * 10 + LabelRank(a.bucket)) * 3

\* key=lambda a: (a.date, a.bucket, severity_order[a.severity]), as one number
DedupKey(a) ==
    ((a.date[1] * 100 + a.date[2]) * 10 + LabelRank(a.bucket)) * 3
        + SeverityOrder(a.severity)

\* sorted(anomalies, key=...): Python's sort is stable.
SortedAnomalies(anomalies) ==
    LET n == Len(anomalies)
        before(j, i) == \/ DedupKey(anomalies[j]) < DedupKey(anomalies[i])
                        \/ /\ DedupKey(anomalies[j]) = DedupKey(anomalies[i])
                           /\ j < i
        rank(i) == Cardinality({j \in 1..n : before(j, i)}) + 1
    IN  List([p \in 1..n |-> anomalies[CHOOSE i \in 1..n : rank(i) = p]])

RECURSIVE KeepFirst(_, _)
KeepFirst(sorted_anomalies, seen) ==
    IF sorted_anomalies = <<>> THEN <<>>
    ELSE LET anomaly == Head(sorted_anomalies)
             key == <<anomaly.date, anomaly.bucket>>
         IN  IF key \notin seen
             THEN <<anomaly>> \o KeepFirst(Tail(sorted_anomalies), seen \cup {key})
             ELSE KeepFirst(Tail(sorted_anomalies), seen)

DeduplicateAnomalies(anomalies) == KeepFirst(SortedAnomalies(anomalies), {})

\* _explain_anomaly: the tables of the model have no customer_vendor column,
\* so top_contributors stays None; the explanation is "<abs_pct>% <direction>
\* vs expected in <bucket>".
ExplainAnomaly(df, anomaly) ==
    LET year_month == ParseYearMonth(anomaly.date)
        anomaly_data == {i \in 1..Len(df.rows) :
                            /\ df.rows[i].year_month = year_month
                            /\ df.rows[i].bucket = anomaly.bucket}
        direction == IF anomaly.deviation.num > 0 THEN "increase" ELSE "decrease"
        abs_pct == Frac(Abs(anomaly.deviation_pct.num), anomaly.deviation_pct.den)
    IN  IF anomaly_data = {} THEN anomaly
        ELSE [anomaly EXCEPT !.explanation =
                 [abs_pct |-> abs_pct, direction |-> direction,
                  bucket |-> anomaly.bucket]]

\* A sort on the severity alone, leaving the deduplicated order within one.
SortBySeverityOnly(anomalies) ==
    LET n == Len(anomalies)
        sev(i) == SeverityOrder(anomalies[i].severity)
        before(j, i) == sev(j) < sev(i) \/ (sev(j) = sev(i) /\ j < i)
        rank(i) == Cardinality({j \in 1..n : before(j, i)}) + 1
    IN  List([p \in 1..n |-> anomalies[CHOOSE i \in 1..n : rank(i) = p]])

\* anomalies.sort(key=lambda a: (severity_order[a.severity], abs(a.deviation_pct)))
SortBySeverity(anomalies) ==
    LET n == Len(anomalies)
        sev(i) == SeverityOrder(anomalies[i].severity)
        pct(i) == anomalies[i].deviation_pct
        less(j, i) == Abs(pct(j).num) * pct(i).den < Abs(pct(i).num) * pct(j).den
        same(j, i) == Abs(pct(j).num) * pct(i).den = Abs(pct(i).num) * pct(j).den
        before(j, i) == \/ sev(j) < sev(i)
                        \/ sev(j) = sev(i) /\ less(j, i)
                        \/ sev(j) = sev(i) /\ same(j, i) /\ j < i
        rank(i) == Cardinality({j \in 1..n : before(j, i)}) + 1
    IN  List([p \in 1..n |-> anomalies[CHOOSE i \in 1..n : rank(i) = p]])

CreateSummary(anomalies) ==
    LET count(sev) == Cardinality({i \in 1..Len(anomalies) :
                                      anomalies[i].severity = sev})
        types == {anomalies[i].type : i \in 1..Len(anomalies)}
        buckets == {anomalies[i].bucket : i \in 1..Len(anomalies)}
    IN  [total_count |-> Len(anomalies),
         high_severity_count |-> count("high"),
         medium_severity_count |-> count("medium"),
         low_severity_count |-> count("low"),
         by_type |-> [t \in types |->
                         Cardinality({i \in 1..Len(anomalies) :
                                         anomalies[i].type = t})],
         by_bucket |-> [b \in buckets |->
                           Cardinality({i \in 1..Len(anomalies) :
                                           anomalies[i].bucket = b})]]

\* AnomalyDetector(df, config).detect_all(), given what the isolation forests
\* return.  `flagged` is the list before deduplication and `forests` what
\* the forests returned, bucket by bucket.
DetectAll(df, cfg, forests) ==
    LET zscore_threshold == ConfigGet(cfg, "anomaly_threshold_zscore",
                                      DefaultZscoreThreshold)
        mad_threshold == ConfigGet(cfg, "anomaly_threshold_mad", DefaultMadThreshold)
        use_isolation_forest == ConfigGet(cfg, "use_isolation_forest", TRUE)
        flagged == DetectZscoreAnomalies(df, zscore_threshold)
                   \o DetectMadAnomalies(df, mad_threshold)
                   \o (IF use_isolation_forest
                       THEN DetectIsolationForestAnomalies(df, forests) ELSE <<>>)
        unique == DeduplicateAnomalies(flagged)
        explained == List([k \in 1..Len(unique) |-> ExplainAnomaly(df, unique[k])])
        anomalies == SortBySeverity(explained)
    IN  [none |-> FALSE,
         forests |-> forests,
         flagged |-> flagged,
         anomalies |-> anomalies,
         summary |-> CreateSummary(anomalies)]

(***************************************************************************)
(* FinancialRatioAnalyzer: the threshold tables, _determine_status, the    *)
(* category score functions and _determine_overall_status.  Ratio values   *)
(* and thresholds are in thousandths; a score is the exact fraction.       *)
(***************************************************************************)
RatioConfig(category, benchmark, excellent, good, warning, critical) ==
    [category |-> category,
     benchmark |-> benchmark,
     thresholds |-> [excellent |-> excellent, good |-> good,
                     warning |-> warning, critical |-> critical]]

RatioConfigs ==
    ("current_ratio" :>
        RatioConfig("Liquidity", "> 1.5 is good, < 1 is concern", 2000, 1500, 1000, 500))
 @@ ("quick_ratio" :>
        RatioConfig("Liquidity", "> 1 is healthy", 1500, 1000, 800, 500))
 @@ ("cash_ratio" :>
        RatioConfig("Liquidity", "> 0.5 is okay, > 1 is strong", 1000, 500, 300, 100))
 @@ ("operating_cash_flow_ratio" :>
        RatioConfig("Liquidity", "> 1 is ideal", 1500, 1000, 800, 500))
 @@ ("working_capital" :>
        RatioConfig("Liquidity", "Positive value preferred",
                    1000000000, 500000000, 0, -500000000))
 @@ ("net_working_capital_ratio" :>
        RatioConfig("Liquidity", "> 0.1 is decent", 200, 100, 50, 0))
 @@ ("debt_to_equity_ratio" :>
        RatioConfig("Solvency", "< 1.5 is typical; > 2 is high risk",
                    500, 1500, 2000, 3000))
 @@ ("equity_ratio" :>
        RatioConfig("Solvency", "> 0.4 is good", 600, 400, 300, 200))
 @@ ("debt_ratio" :>
        RatioConfig("Solvency", "< 0.5 preferred", 300, 500, 700, 800))
 @@ ("interest_coverage_ratio" :>
        RatioConfig("Solvency", "> 3 is strong, < 1.5 is concerning",
                    5000, 3000, 1500, 1000))
 @@ ("fixed_charge_coverage_ratio" :>
        RatioConfig("Solvency", "> 2 is safe", 3000, 2000, 1500, 1000))
 @@ ("long_term_debt_to_capitalization" :>
        RatioConfig("Solvency", "< 0.5 ideal", 300, 500, 700, 800))
 @@ ("cash_flow_to_debt_ratio" :>
        RatioConfig("Cash Flow", "> 0.2-0.3 is healthy", 400, 300, 200, 100))
 @@ ("free_cash_flow" :>
        RatioConfig("Cash Flow", "Positive value is good",
                    1000000000, 500000000, 0, -500000000))
 @@ ("free_cash_flow_to_revenue" :>
        RatioConfig("Cash Flow", "> 5% is considered healthy", 100, 50, 20, 0))
 @@ ("current_liability_coverage_ratio" :>
        RatioConfig("Cash Flow", "> 1 is ideal", 1500, 1000, 800, 500))
 @@ ("net_profit_margin" :>
        RatioConfig("Profitability", "Varies by industry, but positive is essential",
                    150, 100, 50, 0))
 @@ ("return_on_assets" :>
        RatioConfig("Profitability", "> 5% generally decent", 100, 50, 30, 0))
 @@ ("return_on_equity" :>
        RatioConfig("Profitability", "> 10-15% is strong", 200, 150, 100, 50))
 @@ ("asset_turnover" :>
        RatioConfig("Efficiency", "> 1 indicates efficient use of assets",
                    1500, 1000, 800, 500))

\* The ratios _calculate_single_ratio has a formula for; the other two always
\* come out as not applicable.
RatedRatios ==
    DOMAIN RatioConfigs \ {"fixed_charge_coverage_ratio",
                           "long_term_debt_to_capitalization"}

\* The ratios whose benchmark asks for a low value.
LowerIsBetter ==
    {"debt_to_equity_ratio", "debt_ratio", "long_term_debt_to_capitalization"}

StatusRank(status) ==
    CASE status = "critical" -> 0 [] status = "warning" -> 1
      [] status = "good" -> 2 [] status = "excellent" -> 3

DetermineStatusStrict(value, thresholds) ==
    IF value > thresholds.excellent THEN "excellent"
    ELSE IF value > thresholds.good THEN "good"
    ELSE IF value > thresholds.warning THEN "warning"
    ELSE "critical"

DetermineStatusLowerIsBetter(value, thresholds) ==
    IF value <= thresholds.excellent THEN "excellent"
    ELSE IF value <= thresholds.good THEN "good"
    ELSE IF value <= thresholds.warning THEN "warning"
    ELSE "critical"

DetermineStatus(value, thresholds) ==
    IF value >= thresholds.excellent THEN "excellent"
    ELSE IF value >= thresholds.good THEN "good"
    ELSE IF value >= thresholds.warning THEN "warning"
    ELSE "critical"

\* Points on a scale that starts at 0 for a critical ratio.
StatusPointsFromZero(status) ==
    CASE status = "excellent" -> 90 [] status = "good" -> 75
      [] status = "warning" -> 50 [] OTHER -> 0

StatusPoints(status) ==
    CASE status = "excellent" -> 90 [] status = "good" -> 75
      [] status = "warning" -> 50 [] OTHER -> 25

\* _calculate_liquidity_score / _solvency_score / _cash_flow_score on the
\* statuses of the category's applicable ratios: np.mean(scores), or 50.0.
CategoryScore(statuses) ==
    IF statuses = <<>> THEN Frac(50, 1)
    ELSE Frac(SeqSum([k \in 1..Len(statuses) |-> StatusPoints(statuses[k])]),
              Len(statuses))

\* overall_score = (liquidity_score + solvency_score + cash_flow_score) / 3
OverallScore(liquidity_score, solvency_score, cash_flow_score) ==
    Frac(liquidity_score.num * solvency_score.den * cash_flow_score.den
           + solvency_score.num * liquidity_score.den * cash_flow_score.den
           + cash_flow_score.num * liquidity_score.den * solvency_score.den,
         3 * liquidity_score.den * solvency_score.den * cash_flow_score.den)

DetermineOverallStatusStrict(liquidity_score, solvency_score, cash_flow_score) ==
    LET overall_score == OverallScore(liquidity_score, solvency_score, cash_flow_score)
    IN  IF overall_score.num > 80 * overall_score.den THEN "strong"
        ELSE IF overall_score.num > 60 * overall_score.den THEN "adequate"
        ELSE IF overall_score.num > 40 * overall_score.den THEN "concerning"
        ELSE "critical"

DetermineOverallStatus(liquidity_score, solvency_score, cash_flow_score) ==
    LET overall_score == OverallScore(liquidity_score, solvency_score, cash_flow_score)
    IN  IF overall_score.num >= 80 * overall_score.den THEN "strong"
        ELSE IF overall_score.num >= 60 * overall_score.den THEN "adequate"
        ELSE IF overall_score.num >= 40 * overall_score.den THEN "concerning"
        ELSE "critical"

(***************************************************************************)
(* Inputs of the normalizer specifications.                                *)
(***************************************************************************)
GlAccounts == {"400000", "999999"}

Amounts == {-40, 100}

OpenAmounts == {NaN, Num(25)}

PostingDates == {15, 51}      \* 2024-01-15, 2024-02-20

DueDays == 30                 \* due_date = posting_date + 30 days

NormRows ==
    {RawRow(gl, Num(a), o, p, Num(p + DueDays)) :
        gl \in GlAccounts, a \in Amounts, o \in OpenAmounts, p \in PostingDates}

Table(rows) == [columns |-> RawColumns \cup {"due_date"}, rows |-> rows]

MappingRow(gl, bucket, type) ==
    [gl_account |-> gl, bucket |-> bucket, type |-> type, entity |-> "BG"]

MappingTable(rows) ==
    [columns |-> {"gl_account", "bucket", "type", "entity"}, rows |-> rows]

MappingTables ==
    {MappingTable(<<>>),
     MappingTable(<<MappingRow("400000", "Revenue - Product A", "Revenue")>>),
     MappingTable(<<MappingRow("400000", "Unmapped", "Revenue")>>),
     MappingTable(<<MappingRow("600100", "OPEX - Marketing", "OPEX"),
                    MappingRow("400000", "Revenue - Product A", "Revenue")>>)}

Configs ==
    {[amount_sign_convention |-> c] : c \in {"positive_debit", "positive_credit"}}

IdleAging == canonical = NoResult /\ aging_result = NoResult

IdleAnomaly == anomaly_result = NoResult

IdleCli == loaded_df = NoResult /\ cli = NoResult /\ engine_runs = <<>>

IdleAnalyzer == mapped_df = NoResult /\ analyzer = NoResult /\ analysis = NoResult

IdleRatio ==
    /\ ratio_name = "None" /\ ratio_values = <<>> /\ ratio_statuses = <<>>
    /\ sub_scores = NoResult /\ overall = NoResult
    /\ IdleAnalyzer

InitNorm ==
    /\ transactions \in {Table(rows) : rows \in SeqsUpTo(NormRows, MaxRows)}
    /\ mapping_df \in MappingTables
    /\ config \in Configs
    /\ normalizer = NoNormalizer
    /\ runs = <<>>

Init == InitNorm /\ IdleAging /\ IdleAnomaly /\ IdleCli /\ IdleRatio

(***************************************************************************)
(* One DataNormalizer: DataNormalizer(fagl_df, mapping_df, config), then   *)
(* normalize() any number of times.  normalize() works on self.fagl_df in  *)
(* place and returns it: self.normalized_df is the same object.            *)
(***************************************************************************)
Construct ==
    /\ normalizer.none
    /\ normalizer' = [none |-> FALSE,
                      fagl_df |-> InitFaglDf(transactions).df,
                      shared |-> InitFaglDf(transactions).shared,
                      normalized |-> FALSE,
                      calls |-> 0]
    /\ UNCHANGED <<transactions, mapping_df, config, runs>>
    /\ UNCHANGED <<agingVars, anomVars, ratioVars, cliVars>>

Normalize ==
    /\ ~normalizer.none
    /\ normalizer.calls < MaxCalls
    /\ LET out == NormalizeDf(normalizer.fagl_df, mapping_df, config)
       IN  /\ normalizer' = [normalizer EXCEPT !.fagl_df = out,
                                               !.normalized = TRUE,
                                               !.calls = @ + 1]
           /\ transactions' = IF normalizer.shared THEN out ELSE transactions
    /\ UNCHANGED <<mapping_df, config, runs>>
    /\ UNCHANGED <<agingVars, anomVars, ratioVars, cliVars>>

Next == Construct \/ Normalize

Spec == Init /\ [][Next]_vars

(***************************************************************************)
(* The pipeline's normalize_data(fagl_df, mapping_df, config) followed by  *)
(* calculate_kpis(normalized, config), run again and again on the caller's *)
(* tables.                                                                 *)
(***************************************************************************)
RunPipeline ==
    /\ Len(runs) < MaxRuns
    /\ LET own == InitFaglDf(transactions)
           normalized_df == NormalizeDf(own.df, mapping_df, config)
           kpis == CalculateAll(normalized_df, config)
       IN  /\ runs' = Append(runs, [transactions |-> transactions,
                                    mapping_df |-> mapping_df,
                                    canonical |-> normalized_df,
                                    kpis |-> kpis])
           /\ transactions' = IF own.shared THEN normalized_df ELSE transactions
    /\ UNCHANGED <<mapping_df, config, normalizer>>
    /\ UNCHANGED <<agingVars, anomVars, ratioVars, cliVars>>

NextPipeline == RunPipeline

SpecPipeline == Init /\ [][NextPipeline]_vars

(***************************************************************************)
(* The pipeline's normalize_data followed by calculate_aging, on           *)
(* receivable and payable items with due dates.                            *)
(***************************************************************************)
AgingGlAccounts == {"120000", "230100"}

AgingOpenAmounts == {NaN, Num(0), Num(25), Num(-10)}

AgingPostingDate == 92        \* 2024-04-01, the latest posting date

AgingDueDates == {NaN, Num(92), Num(61), Num(100)}

AgingRows ==
    {RawRow(gl, Num(100), o, AgingPostingDate, d) :
        gl \in AgingGlAccounts, o \in AgingOpenAmounts, d \in AgingDueDates}

AgingMapping ==
    MappingTable(<<MappingRow("120000", "Receivables - Customers", "Receivable"),
                   MappingRow("230100", "Payables - Suppliers", "Payable")>>)

CustomAgingBuckets ==
    <<AgingBucket(-999999, 0, "Current"),
      AgingBucket(1, 30, "0-30 days"),
      AgingBucket(61, 999999, ">60 days")>>

AgingConfigs ==
    {[amount_sign_convention |-> "positive_debit"],
     [amount_sign_convention |-> "positive_debit",
      aging_buckets |-> CustomAgingBuckets]}

InitAging ==
    /\ transactions \in {Table(rows) : rows \in SeqsUpTo(AgingRows, MaxRows)}
    /\ mapping_df = AgingMapping
    /\ config \in AgingConfigs
    /\ normalizer = NoNormalizer
    /\ runs = <<>>
    /\ IdleAging /\ IdleAnomaly /\ IdleCli /\ IdleRatio

\* normalized_df = normalize_data(fagl_df, mapping_df, config)
NormalizeData ==
    /\ canonical = NoResult
    /\ LET own == InitFaglDf(transactions)
           normalized_df == NormalizeDf(own.df, mapping_df, config)
       IN  /\ canonical' = normalized_df
           /\ transactions' = IF own.shared THEN normalized_df ELSE transactions
    /\ UNCHANGED <<mapping_df, config, normalizer, runs, aging_result>>
    /\ UNCHANGED <<anomVars, ratioVars, cliVars>>

\* aging_result = calculate_aging(normalized_df, config)
CalculateAging ==
    /\ canonical # NoResult
    /\ aging_result = NoResult
    /\ aging_result' = AnalyzeAll(canonical, config)
    /\ UNCHANGED <<normVars, canonical, anomVars, ratioVars, cliVars>>

NextAging == NormalizeData \/ CalculateAging

SpecAging == InitAging /\ [][NextAging]_vars

(***************************************************************************)
(* The pipeline's normalize_data followed by detect_anomalies, on monthly  *)
(* histories of a revenue account and an expense account.                  *)
(***************************************************************************)
AnomalyMapping ==
    MappingTable(<<MappingRow("400000", "Revenue - Product A", "Revenue"),
                   MappingRow("600100", "OPEX - Marketing", "OPEX")>>)

MidMonth(m) == MonthEnds[m] - 15

BaseAmount(base, m) ==
    IF base = "flat" THEN 10 ELSE IF m % 2 = 1 THEN 9 ELSE 11

NoSpike == [month |-> 0, amount |-> 0, split |-> FALSE]

SpikeAmounts == {100, -80, 16}

Spikes(n) ==
    {NoSpike} \cup
    {[month |-> m, amount |-> a, split |-> s] :
        m \in {1, n \div 2, n}, a \in SpikeAmounts, s \in BOOLEAN}

\* One posting per month, the spike month's amount optionally in two postings.
HistoryRows(gl, n, base, spike) ==
    LET posting(m, a) == RawRow(gl, Num(a), NaN, MidMonth(m), NaN)
    IN  Flatten([m \in 1..n |->
                    IF m # spike.month THEN <<posting(m, BaseAmount(base, m))>>
                    ELSE IF spike.split
                    THEN <<posting(m, spike.amount - 4), posting(m, 4)>>
                    ELSE <<posting(m, spike.amount)>>])

Histories == {5, 6, 12, 15, 18}

RevenueHistories ==
    UNION {{HistoryRows("400000", n, base, spike) :
               base \in {"flat", "alternating"}, spike \in Spikes(n)} :
           n \in Histories}

ExpenseHistories ==
    {<<>>,
     HistoryRows("600100", 6, "alternating",
                 [month |-> 6, amount |-> 100, split |-> FALSE])}

AnomalyConfigs ==
    {[amount_sign_convention |-> "positive_debit"],
     [amount_sign_convention |-> "positive_debit", use_isolation_forest |-> FALSE]}

InitAnomaly ==
    /\ transactions \in {Table(r \o x) : r \in RevenueHistories, x \in ExpenseHistories}
    /\ mapping_df = AnomalyMapping
    /\ config \in AnomalyConfigs
    /\ normalizer = NoNormalizer
    /\ runs = <<>>
    /\ IdleAging /\ IdleAnomaly /\ IdleCli /\ IdleRatio

RECURSIVE ForestSeqs(_)
ForestSeqs(options) ==
    IF options = <<>> THEN {<<>>}
    ELSE {<<o>> \o rest : o \in Head(options), rest \in ForestSeqs(Tail(options))}

\* The outcomes of the forests _detect_isolation_forest_anomalies fits: one
\* per bucket with at least 10 months.
ForestOutcomes(df, cfg) ==
    LET monthly == Monthly(df)
        buckets == Buckets(monthly)
        n(b) == Len(BucketData(monthly, buckets[b]))
    IN  ForestSeqs([b \in 1..Len(buckets) |->
                       IF ConfigGet(cfg, "use_isolation_forest", TRUE) /\ n(b) >= 10
                       THEN IsoOutcomes(n(b)) ELSE {NoForest}])

\* anomaly_result = detect_anomalies(normalized_df, config)
DetectAnomalies ==
    /\ canonical # NoResult
    /\ anomaly_result = NoResult
    /\ \E forests \in ForestOutcomes(canonical, config) :
          anomaly_result' = DetectAll(canonical, config, forests)
    /\ UNCHANGED <<normVars, agingVars, ratioVars, cliVars>>

NextAnomaly == NormalizeData \/ DetectAnomalies

SpecAnomaly == InitAnomaly /\ [][NextAnomaly]_vars

(***************************************************************************)
(* _determine_status applied to two values of one ratio.                   *)
(***************************************************************************)
ValueOffsets == {-1, 0, 500}

\* Values at, just below and above each threshold of the ratio.
RatioValues(name) ==
    LET t == RatioConfigs[name].thresholds
    IN  {v + d : v \in {t.excellent, t.good, t.warning, t.critical},
                 d \in ValueOffsets}

InitStatus ==
    /\ ratio_name \in RatedRatios
    /\ ratio_values \in UNION {{<<v1, v2>> : v1 \in RatioValues(n),
                                             v2 \in RatioValues(n)} :
                               n \in RatedRatios}
    /\ ratio_values[1] \in RatioValues(ratio_name)
    /\ ratio_values[2] \in RatioValues(ratio_name)
    /\ ratio_statuses = <<>>
    /\ sub_scores = NoResult /\ overall = NoResult
    /\ transactions = NoResult /\ mapping_df = NoResult /\ config = NoResult
    /\ normalizer = NoNormalizer /\ runs = <<>>
    /\ IdleAging /\ IdleAnomaly /\ IdleCli /\ IdleAnalyzer

\* status = self._determine_status(value, config['thresholds'])
DetermineRatioStatus ==
    /\ Len(ratio_statuses) < Len(ratio_values)
    /\ ratio_statuses' =
          Append(ratio_statuses,
                 DetermineStatus(ratio_values[Len(ratio_statuses) + 1],
                                 RatioConfigs[ratio_name].thresholds))
    /\ UNCHANGED <<ratio_name, ratio_values, sub_scores, overall>>
    /\ UNCHANGED <<mapped_df, analyzer, analysis>>
    /\ UNCHANGED <<normVars, agingVars, anomVars, cliVars>>

NextStatus == DetermineRatioStatus

SpecStatus == InitStatus /\ [][NextStatus]_vars

(***************************************************************************)
(* _determine_overall_status applied to the sub-scores the category score  *)
(* functions can return for up to MaxApplicable applicable ratios.         *)
(***************************************************************************)
StatusNames == {"excellent", "good", "warning", "critical"}

SubScores ==
    {CategoryScore(s) : s \in {<<>>} \cup SeqsUpTo(StatusNames, MaxApplicable)}

InitOverall ==
    /\ sub_scores \in [liquidity_score : SubScores, solvency_score : SubScores,
                       cash_flow_score : SubScores]
    /\ overall = NoResult
    /\ ratio_name = "None" /\ ratio_values = <<>> /\ ratio_statuses = <<>>
    /\ transactions = NoResult /\ mapping_df = NoResult /\ config = NoResult
    /\ normalizer = NoNormalizer /\ runs = <<>>
    /\ IdleAging /\ IdleAnomaly /\ IdleCli /\ IdleAnalyzer

\* overall_status = self._determine_overall_status(liquidity_score,
\*                                                 solvency_score, cash_flow_score)
DetermineOverall ==
    /\ sub_scores # NoResult
    /\ overall = NoResult
    /\ overall' =
          [none |-> FALSE,
           overall_score |-> OverallScore(sub_scores.liquidity_score,
                                          sub_scores.solvency_score,
                                          sub_scores.cash_flow_score),
           overall_status |-> DetermineOverallStatus(sub_scores.liquidity_score,
                                                     sub_scores.solvency_score,
                                                     sub_scores.cash_flow_score)]
    /\ UNCHANGED <<ratio_name, ratio_values, ratio_statuses, sub_scores>>
    /\ UNCHANGED <<mapped_df, analyzer, analysis>>
    /\ UNCHANGED <<normVars, agingVars, anomVars, cliVars>>

NextOverall == DetermineOverall

SpecOverall == InitOverall /\ [][NextOverall]_vars


(***************************************************************************)
(* Claims about the normalizer.                                            *)
(***************************************************************************)
MappingKeys == {mapping_df.rows[i].gl_account : i \in 1..Len(mapping_df.rows)}

MappingEntry(gl) == MappingDict(mapping_df)[gl]

Normalized == ~normalizer.none /\ normalizer.normalized

OutRows == normalizer.fagl_df.rows

\* C1: after normalize, each row has is_mapped = TRUE if and only if its
\* gl_account is a key of the mapping table.
C1_IsMappedIffKey ==
    Normalized =>
        \A i \in 1..Len(OutRows) :
            OutRows[i].is_mapped <=> (OutRows[i].gl_account \in MappingKeys)

\* C2: after normalize, every row is either joined (is_mapped, with the bucket
\* and type of the mapping entry of its gl_account) or unjoined (not is_mapped,
\* bucket "Unmapped", type "Other", no entity of a mapping entry); never
\* partially joined.
C2_NeverPartiallyJoined ==
    Normalized =>
        \A i \in 1..Len(OutRows) :
            LET r == OutRows[i]
            IN  \/ /\ r.is_mapped
                   /\ r.gl_account \in MappingKeys
                   /\ r.bucket = MappingEntry(r.gl_account).bucket
                   /\ r.type = MappingEntry(r.gl_account).type
                \/ /\ ~r.is_mapped
                   /\ r.bucket = "Unmapped"
                   /\ r.type = "Other"
                   /\ r.entity_mapped = "None"

\* C3: whatever the number of normalize() calls on the DataNormalizer, under
\* positive_credit the amount and open_amount of every row are the negation
\* of the input's, and under positive_debit they are the input's.
C3_SignFlippedExactlyOnce ==
    Normalized =>
        \A i \in 1..Len(OutRows) :
            IF config.amount_sign_convention = "positive_credit"
            THEN /\ OutRows[i].amount = Neg(transactions.rows[i].amount)
                 /\ OutRows[i].open_amount = Neg(transactions.rows[i].open_amount)
            ELSE /\ OutRows[i].amount = transactions.rows[i].amount
                 /\ OutRows[i].open_amount = transactions.rows[i].open_amount

OpenItems(flag) ==
    {i \in 1..Len(canonical.rows) :
        /\ IF flag = "is_receivable" THEN canonical.rows[i].is_receivable
                                      ELSE canonical.rows[i].is_payable
        /\ ~canonical.rows[i].open_amount.nan
        /\ canonical.rows[i].open_amount.val # 0}

RECURSIVE TotalOpen(_)
TotalOpen(I) ==
    IF I = {} THEN 0
    ELSE LET i == CHOOSE x \in I : TRUE
         IN  canonical.rows[i].open_amount.val + TotalOpen(I \ {i})

Containing(days) ==
    {j \in 1..Len(aging_result.aging_buckets) :
        /\ ~days.nan
        /\ aging_result.aging_buckets[j].min_days <= days.val
        /\ days.val <= aging_result.aging_buckets[j].max_days}

AgingPartition(items, lines, flag) ==
    /\ Len(items) = Cardinality(OpenItems(flag))
    /\ {items[k].row : k \in 1..Len(items)} = OpenItems(flag)
    /\ \A k \in 1..Len(items) :
          LET in == Containing(canonical.rows[items[k].row].days_overdue)
          IN  IF in = {} THEN items[k].aging_bucket = "Unknown"
              ELSE /\ Cardinality(in) = 1
                   /\ \A j \in in :
                         items[k].aging_bucket = aging_result.aging_buckets[j].label
    /\ \A k \in 1..Len(items) :
          Cardinality({l \in 1..Len(lines) :
                          lines[l].aging_bucket = items[k].aging_bucket}) = 1
    /\ SumField(lines, 1..Len(lines)).count = Cardinality(OpenItems(flag))
    /\ SumField(lines, 1..Len(lines)).amount = TotalOpen(OpenItems(flag))

C5_AgingPartition ==
    ~aging_result.none =>
        /\ AgingPartition(aging_result.ar_items, aging_result.ar_aging,
                          "is_receivable")
        /\ AgingPartition(aging_result.ap_items, aging_result.ap_aging,
                          "is_payable")

C5_UnknownAndBucketed ==
    /\ ~aging_result.none
    /\ Len(aging_result.ar_items) = 2
    /\ Len(aging_result.ar_aging) = 2
    /\ \E k \in 1..2 : aging_result.ar_items[k].aging_bucket = "Unknown"
    /\ \E k \in 1..2 : aging_result.ar_items[k].aging_bucket = "Current"
    /\ Len(aging_result.ap_items) = 0


\* C6: after deduplication the anomaly list holds at most one anomaly per
\* (period, bucket) key, and for every key flagged by one or more detectors
\* exactly one anomaly survives, whose severity is the highest severity
\* (high > medium > low) among all flags raised for that key.
FlagsOf(date, bucket) ==
    {i \in 1..Len(anomaly_result.flagged) :
        /\ anomaly_result.flagged[i].date = date
        /\ anomaly_result.flagged[i].bucket = bucket}

SurvivorsOf(date, bucket) ==
    {i \in 1..Len(anomaly_result.anomalies) :
        /\ anomaly_result.anomalies[i].date = date
        /\ anomaly_result.anomalies[i].bucket = bucket}

C6_OnePerKeyHighestSeverity ==
    ~anomaly_result.none =>
        /\ \A i \in 1..Len(anomaly_result.anomalies) :
              LET a == anomaly_result.anomalies[i]
              IN  /\ SurvivorsOf(a.date, a.bucket) = {i}
                  /\ FlagsOf(a.date, a.bucket) # {}
        /\ \A i \in 1..Len(anomaly_result.flagged) :
              LET f == anomaly_result.flagged[i]
              IN  /\ Cardinality(SurvivorsOf(f.date, f.bucket)) = 1
                  /\ \A k \in SurvivorsOf(f.date, f.bucket) :
                        \A j \in FlagsOf(f.date, f.bucket) :
                           SeverityOrder(anomaly_result.anomalies[k].severity)
                               <= SeverityOrder(anomaly_result.flagged[j].severity)

C6_LowAndHighFlagsOneSurvivor ==
    /\ ~anomaly_result.none
    /\ \E i, j \in 1..Len(anomaly_result.flagged) :
          /\ anomaly_result.flagged[i].date = anomaly_result.flagged[j].date
          /\ anomaly_result.flagged[i].bucket = anomaly_result.flagged[j].bucket
          /\ anomaly_result.flagged[i].method = "zscore"
          /\ anomaly_result.flagged[i].severity = "low"
          /\ anomaly_result.flagged[j].method = "mad"
          /\ anomaly_result.flagged[j].severity = "high"
          /\ \E k \in 1..Len(anomaly_result.anomalies) :
                /\ anomaly_result.anomalies[k].date = anomaly_result.flagged[i].date
                /\ anomaly_result.anomalies[k].bucket = anomaly_result.flagged[i].bucket
                /\ anomaly_result.anomalies[k].severity = "high"
    /\ \E i, j \in 1..Len(anomaly_result.anomalies) :
          anomaly_result.anomalies[i].bucket # anomaly_result.anomalies[j].bucket

\* C7: the status of an applicable ratio is the highest tier, checked in the
\* order excellent, good, warning, whose threshold the value meets or exceeds,
\* and 'critical' when the value is below the warning threshold; a
\* current_ratio of 2.5 (thresholds 2.0, 1.5, 1.0, 0.5) is 'excellent'.
TiersMet(value, thresholds) ==
    {tier \in {"excellent", "good", "warning"} : value >= thresholds[tier]}

HighestTierMet(k) ==
    LET met == TiersMet(ratio_values[k], RatioConfigs[ratio_name].thresholds)
    IN  /\ met # {} => /\ ratio_statuses[k] \in met
                       /\ \A tier \in met :
                             StatusRank(tier) <= StatusRank(ratio_statuses[k])
        /\ (ratio_name = "current_ratio" /\ ratio_values[k] = 2500)
              => ratio_statuses[k] = "excellent"

C8_StatusMonotone ==
    (/\ Len(ratio_statuses) = 2
     /\ ratio_name \notin LowerIsBetter
     /\ ratio_values[1] <= ratio_values[2])
        => StatusRank(ratio_statuses[1]) <= StatusRank(ratio_statuses[2])

C8_HigherValueBetterStatus ==
    /\ Len(ratio_statuses) = 2
    /\ ratio_name \notin LowerIsBetter
    /\ ratio_values[1] < ratio_values[2]
    /\ ratio_statuses[1] = "warning"
    /\ ratio_statuses[2] = "excellent"

\* C9: the overall going-concern score is the arithmetic mean of the
\* liquidity, solvency and cash-flow sub-scores, and overall_status is
\* 'strong' for a score >= 80, 'adequate' for 60 <= score < 80, 'concerning'
\* for 40 <= score < 60 and 'critical' below 40.  SubScoreSum60 is 60 times
\* the sum of the three sub-scores.
SubScoreSum60 ==
    (sub_scores.liquidity_score.num * 60) \div sub_scores.liquidity_score.den
  + (sub_scores.solvency_score.num * 60) \div sub_scores.solvency_score.den
  + (sub_scores.cash_flow_score.num * 60) \div sub_scores.cash_flow_score.den

C9_OverallIsMeanWithBoundaries ==
    ~overall.none =>
        /\ 3 * 60 * overall.overall_score.num
              = SubScoreSum60 * overall.overall_score.den
        /\ overall.overall_status =
              (IF SubScoreSum60 >= 80 * 3 * 60 THEN "strong"
               ELSE IF SubScoreSum60 >= 60 * 3 * 60 THEN "adequate"
               ELSE IF SubScoreSum60 >= 40 * 3 * 60 THEN "concerning"
               ELSE "critical")

C9_ExactlyEightyIsStrong ==
    /\ ~overall.none
    /\ SubScoreSum60 = 80 * 3 * 60
    /\ overall.overall_status = "strong"
    /\ sub_scores.liquidity_score = Frac(90, 1)
    /\ sub_scores.solvency_score = Frac(150, 2)

\* C10: for a bucket whose 12 monthly sums are all equal except one month that
\* lies far above the others, the z-score detector flags exactly that month
\* with method 'zscore'; `severity` is the severity of that flag and of the one
\* anomaly that remains for that (period, bucket) after deduplication.
SpikeScenario(bucket_data, k) ==
    /\ Len(bucket_data) = 12
    /\ k \in 1..12
    /\ \A i, j \in (1..12) \ {k} : bucket_data[i].amount = bucket_data[j].amount
    /\ \A i \in (1..12) \ {k} : bucket_data[k].amount > bucket_data[i].amount

SpikeFlagged(bucket_data, k, severity) ==
    LET date == FormatYearMonth(bucket_data[k].year_month)
        bucket == bucket_data[k].bucket
        zflags == {i \in 1..Len(anomaly_result.flagged) :
                      /\ anomaly_result.flagged[i].bucket = bucket
                      /\ anomaly_result.flagged[i].method = "zscore"}
    IN  /\ Cardinality(zflags) = 1
        /\ \A i \in zflags : /\ anomaly_result.flagged[i].date = date
                             /\ anomaly_result.flagged[i].severity = severity
        /\ Cardinality(SurvivorsOf(date, bucket)) = 1
        /\ \A i \in SurvivorsOf(date, bucket) :
              anomaly_result.anomalies[i].severity = severity

SpikeCases ==
    LET monthly == Monthly(canonical)
        buckets == Buckets(monthly)
    IN  {<<b, k>> \in (1..Len(buckets)) \X (1..12) :
            SpikeScenario(BucketData(monthly, buckets[b]), k)}

SpikeSeverity(severity) ==
    ~anomaly_result.none =>
        \A c \in SpikeCases :
            SpikeFlagged(BucketData(Monthly(canonical),
                                    Buckets(Monthly(canonical))[c[1]]),
                         c[2], severity)

KpiGlAccounts == {"400000", "600100", "610000", "999999"}

KpiRows ==
    {RawRow(gl, Num(a), NaN, p, Num(p + DueDays)) :
        gl \in KpiGlAccounts, a \in Amounts, p \in PostingDates}

KpiMappingTables ==
    {MappingTable(<<MappingRow("400000", "Revenue - Product A", "Revenue")>>),
     MappingTable(<<MappingRow("400000", "Revenue - Product A", "Revenue"),
                    MappingRow("600100", "OPEX - Marketing", "OPEX"),
                    MappingRow("610000", "Payroll - Salaries", "Payroll")>>),
     MappingTable(<<MappingRow("400000", "Unmapped", "Revenue"),
                    MappingRow("600100", "OPEX - Marketing", "OPEX")>>)}

InitKpi ==
    /\ transactions \in {Table(rows) : rows \in SeqsUpTo(KpiRows, MaxRows)}
    /\ mapping_df \in KpiMappingTables
    /\ config \in Configs
    /\ normalizer = NoNormalizer
    /\ runs = <<>>
    /\ IdleAging /\ IdleAnomaly /\ IdleCli /\ IdleRatio

SpecKpi == InitKpi /\ [][NextPipeline]_vars

(***************************************************************************)
(* Claims about the KPI summary.                                           *)
(***************************************************************************)
\* The amount of input row i under the configured sign convention.
SignNormalized(i) ==
    IF ConfigGet(config, "amount_sign_convention", "positive_debit") = "positive_credit"
    THEN -transactions.rows[i].amount.val
    ELSE transactions.rows[i].amount.val

MappedTo(type) ==
    {i \in 1..Len(transactions.rows) :
        /\ transactions.rows[i].gl_account \in MappingKeys
        /\ MappingEntry(transactions.rows[i].gl_account).type = type}

RECURSIVE SumSignNormalized(_)
SumSignNormalized(I) ==
    IF I = {} THEN 0
    ELSE LET i == CHOOSE x \in I : TRUE
         IN  SignNormalized(i) + SumSignNormalized(I \ {i})

\* C11: summary_kpis.total_revenue is the sum of the sign-normalized amounts of
\* exactly the rows whose gl_account the mapping gives type Revenue (likewise
\* total_opex and total_payroll), net_profit is total_revenue minus
\* (total_opex + total_payroll), rows whose gl_account is no mapping key are in
\* none of the totals, and with an ordinary bucket label is_mapped is true for
\* exactly the rows of mapped accounts.
C11_TotalsByMappedType ==
    \A k \in 1..Len(runs) :
        LET s == runs[k].kpis.summary_kpis
            out == runs[k].canonical.rows
        IN  /\ s.total_revenue = SumSignNormalized(MappedTo("Revenue"))
            /\ s.total_opex = SumSignNormalized(MappedTo("OPEX"))
            /\ s.total_payroll = SumSignNormalized(MappedTo("Payroll"))
            /\ s.net_profit = s.total_revenue - (s.total_opex + s.total_payroll)
            /\ \A i \in 1..Len(out) :
                  out[i].gl_account \notin MappingKeys =>
                      out[i].type \notin {"Revenue", "OPEX", "Payroll"}
            /\ (\A g \in MappingKeys : MappingEntry(g).bucket # "Unmapped") =>
                  {i \in 1..Len(out) : out[i].is_mapped}
                      = {i \in 1..Len(out) : out[i].gl_account \in MappingKeys}

\* C11 witness: the scenario in small: a mapping with the one entry
\* 400000 -> Revenue, a row of account 400000 and an unmapped row; is_mapped is
\* true for the one row and total_revenue is that row's amount.
C11_RevenueOfMappedRowsOnly ==
    /\ Len(runs) >= 1
    /\ Len(mapping_df.rows) = 1
    /\ Len(transactions.rows) = 2
    /\ transactions.rows[1].gl_account = "400000"
    /\ transactions.rows[2].gl_account = "999999"
    /\ transactions.rows[1].amount.val = 100
    /\ transactions.rows[2].amount.val = 100
    /\ runs[1].canonical.rows[1].is_mapped
    /\ ~runs[1].canonical.rows[2].is_mapped
    /\ runs[1].kpis.summary_kpis.total_revenue = 100
    /\ config.amount_sign_convention = "positive_debit"

(***************************************************************************)
(* Claims about the aging summary.                                         *)
(***************************************************************************)
\* 0 <= f <= 100 for a fraction f whose denominator may be negative.
InPercentRange(f) ==
    IF f.den > 0 THEN 0 <= f.num /\ f.num <= 100 * f.den
    ELSE IF f.den < 0 THEN 0 >= f.num /\ f.num >= 100 * f.den
    ELSE FALSE

\* C12: for every normalized table the AR aging summary has an overdue_pct,
\* it lies in the closed interval [0, 100], and it is 0 when the total
\* outstanding is 0.
C12_OverduePctInRange ==
    ~aging_result.none =>
        LET s == aging_result.ar_summary
        IN  /\ "overdue_pct" \in DOMAIN s
            /\ InPercentRange(s.overdue_pct)
            /\ s.total_outstanding = 0 => s.overdue_pct.num = 0

(***************************************************************************)
(* FinancialRatioAnalyzer.analyze: the statements built from the mapped    *)
(* transactions, the ratios and the going concern assessment.  A statement *)
(* line that the code multiplies by 1.5 is kept as an exact fraction; a    *)
(* ratio value is the exact fraction numerator / denominator.  The         *)
(* formatted texts (interpretation, formula, detailed_analysis) are left   *)
(* out of a RatioResult and of the assessment.                             *)
(***************************************************************************)
\* The insertion order of self.ratio_configs.
RatioOrder ==
    <<"current_ratio", "quick_ratio", "cash_ratio", "operating_cash_flow_ratio",
      "working_capital", "net_working_capital_ratio", "debt_to_equity_ratio",
      "equity_ratio", "debt_ratio", "interest_coverage_ratio",
      "fixed_charge_coverage_ratio", "long_term_debt_to_capitalization",
      "cash_flow_to_debt_ratio", "free_cash_flow", "free_cash_flow_to_revenue",
      "current_liability_coverage_ratio", "net_profit_margin", "return_on_assets",
      "return_on_equity", "asset_turnover">>

RECURSIVE SumCategory(_, _, _)
SumCategory(rows, cats, i) ==
    IF i > Len(rows) THEN 0
    ELSE (IF rows[i].ABCOTD \in cats THEN rows[i].amount ELSE 0)
         + SumCategory(rows, cats, i + 1)

\* aggregated[aggregated['ABCOTD'].isin(cats)]['amount'].sum()
SumOf(mapped_df_, cats) == SumCategory(mapped_df_.rows, cats, 1)

DepreciationCategories ==
    {"Depreciation of property, plant, and equipment",
     "Depreciation/amortization of rights of use assets",
     "Amortization of intangibles - other"}

CreateBalanceSheet(aggregated) ==
    LET current_assets ==
            Abs(SumOf(aggregated, {"Cash and cash equivalents", "Inventory",
                                   "Receivables - trade accounts", "Other receivables",
                                   "Prepaid expenses and accrued income"}))
        non_current_assets ==
            Abs(SumOf(aggregated, {"Property, plant, and equipment",
                                   "Intangibles - other", "Leases - right of use assets",
                                   "Deferred tax asset or liability"}))
        current_liabilities ==
            Abs(SumOf(aggregated, {"Payables - trade accounts", "Other payables",
                                   "Deferred revenue"}))
        non_current_liabilities ==
            Abs(SumOf(aggregated, {"Lease liabilities",
                                   "Deferred tax asset or liability"}))
    IN  ("Current Assets" :> current_assets)
     @@ ("Non-Current Assets" :> non_current_assets)
     @@ ("Total Assets" :> current_assets + non_current_assets)
     @@ ("Current Liabilities" :> current_liabilities)
     @@ ("Non-Current Liabilities" :> non_current_liabilities)
     @@ ("Total Liabilities" :> current_liabilities + non_current_liabilities)
     @@ ("Total Equity" :> Abs(SumOf(aggregated, {"Equity"})))

CreateIncomeStatement(aggregated) ==
    LET revenue == Abs(SumOf(aggregated, {"Revenue"}))
        cost_of_sales == Abs(SumOf(aggregated, {"Cost of sales"}))
        operating_expenses == Abs(SumOf(aggregated, {"Operating expenses"}))
        payroll == Abs(SumOf(aggregated, {"Payroll"}))
        depreciation == Abs(SumOf(aggregated, DepreciationCategories))
        other_expenses == Abs(SumOf(aggregated, {"Other expenses"}))
        total_operating_expenses ==
            operating_expenses + payroll + depreciation + other_expenses
        ebit == (revenue - cost_of_sales) - total_operating_expenses
        interest_expense == Abs(SumOf(aggregated, {"Interest on lease obligations"}))
        income_tax == Abs(SumOf(aggregated, {"Income tax expense or benefit"}))
    IN  ("Revenue" :> revenue)
     @@ ("Cost of Sales" :> cost_of_sales)
     @@ ("Gross Profit" :> revenue - cost_of_sales)
     @@ ("Operating Expenses" :> operating_expenses)
     @@ ("Payroll" :> payroll)
     @@ ("Depreciation" :> depreciation)
     @@ ("Other Expenses" :> other_expenses)
     @@ ("Total Operating Expenses" :> total_operating_expenses)
     @@ ("EBIT" :> ebit)
     @@ ("Interest Expense" :> interest_expense)
     @@ ("Income Tax" :> income_tax)
     @@ ("Net Income" :> ebit - interest_expense - income_tax)

\* The lines of the cash flow statement are fractions: Capital Expenditures
\* is abs(depreciation) * 1.5.
CreateCashFlowStatement(aggregated) ==
    LET revenue == SumOf(aggregated, {"Revenue"})
        operating_expenses ==
            SumOf(aggregated, {"Cost of sales", "Operating expenses", "Payroll",
                               "Other expenses"})
        operating_cash_flow == Abs(revenue) - Abs(operating_expenses)
        depreciation == SumOf(aggregated, DepreciationCategories)
    IN  ("Operating Cash Flow" :> Frac(operating_cash_flow, 1))
     @@ ("Capital Expenditures" :> Frac(3 * Abs(depreciation), 2))
     @@ ("Free Cash Flow" :> Frac(2 * operating_cash_flow - 3 * Abs(depreciation), 2))
     @@ ("Cash and Cash Equivalents" :>
            Frac(Abs(SumOf(aggregated, {"Cash and cash equivalents"})), 1))

\* _prepare_financial_statements(mapped_df): the three statements.
PrepareFinancialStatements(mapped_df_) ==
    [balance_sheet_data |-> CreateBalanceSheet(mapped_df_),
     income_statement_data |-> CreateIncomeStatement(mapped_df_),
     cash_flow_data |-> CreateCashFlowStatement(mapped_df_)]

\* `n / d if d != 0 else None` for an integer n and a denominator d >= 0.
Over(n, d) == IF d # 0 THEN Value(n, d) ELSE None

\* The same for a numerator that is a fraction.
FracOver(f, d) == IF d # 0 THEN Value(f.num, f.den * d) ELSE None

\* _calculate_single_ratio: the value of the ratio, or None.
CalculateSingleRatio(ratio_name_, st) ==
    LET bs == st.balance_sheet_data
        is == st.income_statement_data
        cf == st.cash_flow_data
    IN  CASE ratio_name_ = "current_ratio" ->
                 Over(bs["Current Assets"], bs["Current Liabilities"])
          [] ratio_name_ = "quick_ratio" ->
                 \* inventory = current_assets * 0.2
                 FracOver(Frac(8 * bs["Current Assets"], 10), bs["Current Liabilities"])
          [] ratio_name_ = "cash_ratio" ->
                 FracOver(cf["Cash and Cash Equivalents"], bs["Current Liabilities"])
          [] ratio_name_ = "operating_cash_flow_ratio" ->
                 FracOver(cf["Operating Cash Flow"], bs["Current Liabilities"])
          [] ratio_name_ = "working_capital" ->
                 Value(bs["Current Assets"] - bs["Current Liabilities"], 1)
          [] ratio_name_ = "net_working_capital_ratio" ->
                 Over(bs["Current Assets"] - bs["Current Liabilities"],
                      bs["Total Assets"])
          [] ratio_name_ = "debt_to_equity_ratio" ->
                 Over(bs["Total Liabilities"], bs["Total Equity"])
          [] ratio_name_ = "equity_ratio" ->
                 Over(bs["Total Equity"], bs["Total Assets"])
          [] ratio_name_ = "debt_ratio" ->
                 Over(bs["Total Liabilities"], bs["Total Assets"])
          [] ratio_name_ = "interest_coverage_ratio" ->
                 Over(is["EBIT"], is["Interest Expense"])
          [] ratio_name_ = "cash_flow_to_debt_ratio" ->
                 FracOver(cf["Operating Cash Flow"], bs["Total Liabilities"])
          [] ratio_name_ = "free_cash_flow" ->
                 Value(cf["Free Cash Flow"].num, cf["Free Cash Flow"].den)
          [] ratio_name_ = "free_cash_flow_to_revenue" ->
                 FracOver(cf["Free Cash Flow"], is["Revenue"])
          [] ratio_name_ = "current_liability_coverage_ratio" ->
                 FracOver(cf["Free Cash Flow"], bs["Current Liabilities"])
          [] ratio_name_ = "net_profit_margin" ->
                 Over(is["Net Income"], is["Revenue"])
          [] ratio_name_ = "return_on_assets" ->
                 Over(is["Net Income"], bs["Total Assets"])
          [] ratio_name_ = "return_on_equity" ->
                 Over(is["Net Income"], bs["Total Equity"])
          [] ratio_name_ = "asset_turnover" ->
                 Over(is["Revenue"], bs["Total Assets"])
          [] OTHER -> None

\* _determine_status on an exact value num / den (den > 0) and thresholds in
\* thousandths: value >= t  iff  1000 * num >= t * den.
StatusOfValue(value, thresholds) ==
    DetermineStatus(1000 * value.num,
                    [excellent |-> thresholds.excellent * value.den,
                     good |-> thresholds.good * value.den,
                     warning |-> thresholds.warning * value.den,
                     critical |-> thresholds.critical * value.den])

RatioResult(ratio_name_, value, status, applicable) ==
    [ratio_name |-> ratio_name_,
     value |-> value,
     benchmark |-> RatioConfigs[ratio_name_].benchmark,
     category |-> RatioConfigs[ratio_name_].category,
     status |-> status,
     applicable |-> applicable]

\* The body of the loop of _calculate_ratios for one ratio.
CalculateRatio(ratio_name_, st) ==
    LET value == CalculateSingleRatio(ratio_name_, st)
    IN  IF value # None
        THEN RatioResult(ratio_name_, Frac(value.num, value.den),
                         StatusOfValue(value, RatioConfigs[ratio_name_].thresholds),
                         TRUE)
        ELSE RatioResult(ratio_name_, Frac(0, 1), "warning", FALSE)

\* _calculate_ratios: one RatioResult per configured ratio, appended to
\* self.ratios.
CalculateFinancialRatios(ratios, st) ==
    ratios \o [k \in 1..Len(RatioOrder) |-> CalculateRatio(RatioOrder[k], st)]

ApplicableAlways(r) == TRUE

\* `r.applicable` in the filters of the scores, the risks and the strengths.
Applicable(r) == r.applicable

RECURSIVE Select(_, _, _, _)
Select(ratios, category, status, i) ==
    IF i > Len(ratios) THEN <<>>
    ELSE (IF /\ Applicable(ratios[i])
             /\ (category = "Any" \/ ratios[i].category = category)
             /\ (status = "Any" \/ ratios[i].status = status)
          THEN <<ratios[i]>> ELSE <<>>)
         \o Select(ratios, category, status, i + 1)

StatusesOf(rs) == [k \in 1..Len(rs) |-> rs[k].status]

\* _calculate_liquidity_score, _calculate_solvency_score, _calculate_cash_flow_score
ScoreOfCategory(ratios, category) ==
    CategoryScore(StatusesOf(Select(ratios, category, "Any", 1)))

Statement(text, ratio_name_) == [text |-> text, ratio_name |-> ratio_name_]

RECURSIVE Statements(_, _)
Statements(rs, texts) ==
    IF rs = <<>> THEN <<>>
    ELSE (IF Head(rs).category \in DOMAIN texts
          THEN <<Statement(texts[Head(rs).category], Head(rs).ratio_name)>>
          ELSE <<>>)
         \o Statements(Tail(rs), texts)

FirstN(s, n) == SubSeq(s, 1, IF Len(s) < n THEN Len(s) ELSE n)

IdentifyKeyRisks(ratios) ==
    LET critical_ratios == Select(ratios, "Any", "critical", 1)
        warning_ratios == Select(ratios, "Any", "warning", 1)
        top3 == FirstN(warning_ratios, 3)
        risks == Statements(critical_ratios,
                            ("Liquidity" :> "Critical liquidity risk")
                         @@ ("Solvency" :> "Critical solvency risk")
                         @@ ("Cash Flow" :> "Critical cash flow risk"))
                 \o [k \in 1..Len(top3) |->
                        Statement("Moderate risk", top3[k].ratio_name)]
    IN  FirstN(risks, 5)

IdentifyKeyStrengths(ratios) ==
    FirstN(Statements(Select(ratios, "Any", "excellent", 1),
                      ("Liquidity" :> "Strong liquidity")
                   @@ ("Solvency" :> "Strong solvency")
                   @@ ("Cash Flow" :> "Strong cash flow")), 5)

GenerateRecommendations(key_risks) ==
    LET has(text) == \E k \in 1..Len(key_risks) : key_risks[k].text = text
    IN  FirstN((IF has("Critical liquidity risk") THEN <<"URGENT">> ELSE <<>>)
            \o (IF has("Critical solvency risk") THEN <<"CRITICAL">> ELSE <<>>)
            \o (IF has("Critical cash flow risk") THEN <<"HIGH PRIORITY">> ELSE <<>>)
            \o <<"Establish monthly financial monitoring",
                 "Develop contingency plans",
                 "Consider external financing options">>, 6)

\* _assess_going_concern on self.ratios.
AssessGoingConcern(ratios) ==
    LET liquidity_score == ScoreOfCategory(ratios, "Liquidity")
        solvency_score == ScoreOfCategory(ratios, "Solvency")
        cash_flow_score == ScoreOfCategory(ratios, "Cash Flow")
        key_risks == IdentifyKeyRisks(ratios)
    IN  [overall_status |-> DetermineOverallStatus(liquidity_score, solvency_score,
                                                   cash_flow_score),
         liquidity_score |-> liquidity_score,
         solvency_score |-> solvency_score,
         cash_flow_score |-> cash_flow_score,
         key_risks |-> key_risks,
         key_strengths |-> IdentifyKeyStrengths(ratios),
         recommendations |-> GenerateRecommendations(key_risks)]

(***************************************************************************)
(* One FinancialRatioAnalyzer and analyze(mapped_df) on it, once or more.  *)
(* The mapped transactions carry one row for each category of a chosen set *)
(* of ABCOTD categories.                                                   *)
(***************************************************************************)
CategoryAmounts ==
    ("Cash and cash equivalents" :> 300)
 @@ ("Receivables - trade accounts" :> 100)
 @@ ("Property, plant, and equipment" :> 500)
 @@ ("Payables - trade accounts" :> -200)
 @@ ("Lease liabilities" :> -400)
 @@ ("Equity" :> -300)
 @@ ("Revenue" :> -1000)
 @@ ("Operating expenses" :> 600)
 @@ ("Interest on lease obligations" :> 50)
 @@ ("Depreciation of property, plant, and equipment" :> 100)

RECURSIVE MappedRows(_)
MappedRows(cats) ==
    IF cats = {} THEN <<>>
    ELSE LET c == CHOOSE x \in cats : TRUE
         IN  <<[ABCOTD |-> c, bucket |-> c, amount |-> CategoryAmounts[c]]>>
             \o MappedRows(cats \ {c})

MappedDfs ==
    {[columns |-> {"ABCOTD", "bucket", "amount"}, rows |-> MappedRows(cats)] :
        cats \in SUBSET DOMAIN CategoryAmounts}
    \cup {[columns |-> {"bucket", "amount"}, rows |-> <<>>]}

InitAnalyzer ==
    /\ mapped_df \in MappedDfs
    /\ analyzer = [none |-> FALSE, ratios |-> <<>>, statements |-> None, calls |-> 0]
    /\ analysis = NoResult
    /\ ratio_name = "None" /\ ratio_values = <<>> /\ ratio_statuses = <<>>
    /\ sub_scores = NoResult /\ overall = NoResult
    /\ transactions = NoResult /\ mapping_df = NoResult /\ config = NoResult
    /\ normalizer = NoNormalizer /\ runs = <<>>
    /\ IdleAging /\ IdleAnomaly /\ IdleCli

\* analyzer.analyze(mapped_df).  Without an ABCOTD column the groupby of
\* _prepare_financial_statements raises KeyError before anything is stored.
Analyze ==
    /\ analyzer.calls < MaxAnalyses
    /\ IF "ABCOTD" \notin mapped_df.columns
       THEN /\ analysis' = [none |-> FALSE, raised |-> "KeyError"]
            /\ analyzer' = [analyzer EXCEPT !.calls = @ + 1]
       ELSE LET st == PrepareFinancialStatements(mapped_df)
                ratios == CalculateFinancialRatios(analyzer.ratios, st)
            IN  /\ analyzer' = [analyzer EXCEPT !.ratios = ratios,
                                                !.statements = st,
                                                !.calls = @ + 1]
                /\ analysis' = [none |-> FALSE, raised |-> "None",
                                ratios |-> ratios,
                                going_concern |-> AssessGoingConcern(ratios)]
    /\ UNCHANGED <<ratio_name, ratio_values, ratio_statuses, sub_scores, overall,
                   mapped_df>>
    /\ UNCHANGED <<normVars, agingVars, anomVars, cliVars>>

NextAnalyzer == Analyze

SpecAnalyzer == InitAnalyzer /\ [][NextAnalyzer]_vars

(***************************************************************************)
(* Claims about FinancialRatioAnalyzer.analyze.                            *)
(***************************************************************************)
Analyzed == ~analysis.none /\ analysis.raised = "None"

\* The RatioResults of the latest analyze call: the last 20 of self.ratios.
LatestResults ==
    SubSeq(analyzer.ratios, Len(analyzer.ratios) - Len(RatioOrder) + 1,
           Len(analyzer.ratios))

\* The statement line each ratio divides by; "None" for the two ratios that
\* are plain amounts.
DenominatorLine ==
    ("current_ratio" :> "Current Liabilities")
 @@ ("quick_ratio" :> "Current Liabilities")
 @@ ("cash_ratio" :> "Current Liabilities")
 @@ ("operating_cash_flow_ratio" :> "Current Liabilities")
 @@ ("working_capital" :> "None")
 @@ ("net_working_capital_ratio" :> "Total Assets")
 @@ ("debt_to_equity_ratio" :> "Total Equity")
 @@ ("equity_ratio" :> "Total Assets")
 @@ ("debt_ratio" :> "Total Assets")
 @@ ("interest_coverage_ratio" :> "Interest Expense")
 @@ ("cash_flow_to_debt_ratio" :> "Total Liabilities")
 @@ ("free_cash_flow" :> "None")
 @@ ("free_cash_flow_to_revenue" :> "Revenue")
 @@ ("current_liability_coverage_ratio" :> "Current Liabilities")
 @@ ("net_profit_margin" :> "Revenue")
 @@ ("return_on_assets" :> "Total Assets")
 @@ ("return_on_equity" :> "Total Equity")
 @@ ("asset_turnover" :> "Total Assets")

ZeroDenominator(name) ==
    LET line == DenominatorLine[name]
        lines == analyzer.statements.balance_sheet_data
                 @@ analyzer.statements.income_statement_data
    IN  line # "None" /\ lines[line] = 0

NotApplicableNames ==
    {LatestResults[k].ratio_name : k \in {j \in 1..Len(LatestResults) :
                                             ~LatestResults[j].applicable}}

OnlyApplicable(ratios) ==
    LET keep(r) == r.applicable IN SelectSeq(ratios, keep)

NamesIn(statements) == {statements[k].ratio_name : k \in 1..Len(statements)}

\* C13: analyze does not raise on a zero denominator; a ratio whose
\* denominator is zero or that has no formula comes back with applicable =
\* FALSE (and every other ratio with applicable = TRUE); and the not-applicable
\* results contribute nothing: the sub-scores, the risks and the strengths are
\* those of the applicable results alone, and no risk or strength statement
\* names a ratio that is not applicable.
C13_NotApplicableInsteadOfRaising ==
    /\ (~analysis.none /\ "ABCOTD" \in mapped_df.columns) => analysis.raised = "None"
    /\ Analyzed =>
          /\ \A k \in 1..Len(LatestResults) :
                LET r == LatestResults[k]
                IN  r.applicable <=>
                        /\ r.ratio_name \in DOMAIN DenominatorLine
                        /\ ~ZeroDenominator(r.ratio_name)
          /\ LET g == analysis.going_concern
                 h == AssessGoingConcern(OnlyApplicable(analysis.ratios))
             IN  /\ g.liquidity_score = h.liquidity_score
                 /\ g.solvency_score = h.solvency_score
                 /\ g.cash_flow_score = h.cash_flow_score
                 /\ g.key_risks = h.key_risks
                 /\ g.key_strengths = h.key_strengths
                 /\ analyzer.calls = 1 =>
                       /\ NamesIn(g.key_risks) \cap NotApplicableNames = {}
                       /\ NamesIn(g.key_strengths) \cap NotApplicableNames = {}

\* C13 witness: an analysis where a ratio of each scored category has a zero
\* denominator while other ratios of the category are applicable, and both
\* risks and strengths are reported.
C13_ZeroDenominatorsAnalyzed ==
    /\ Analyzed
    /\ analyzer.calls = 1
    /\ ZeroDenominator("current_ratio")
    /\ ZeroDenominator("debt_to_equity_ratio")
    /\ ZeroDenominator("free_cash_flow_to_revenue")
    /\ "current_ratio" \in NotApplicableNames
    /\ \E k \in 1..Len(LatestResults) :
          LatestResults[k].applicable /\ LatestResults[k].category = "Solvency"
    /\ analysis.going_concern.key_risks # <<>>
    /\ analysis.going_concern.key_strengths # <<>>

(***************************************************************************)
(* FAGLLoader and MappingLoader.  A source is the table as read from the   *)
(* file: [columns, rows]; in a source row posting_date is a cell, NaT for  *)
(* a blank or unparsable date.  A loader either raises or returns a table; *)
(* the outcome is [raised, df].                                            *)
(***************************************************************************)
FaglRequiredColumns == {"posting_date", "doc_id", "gl_account", "amount"}

MappingRequiredColumns == {"gl_account", "bucket", "type"}

ValidTypes == {"Revenue", "OPEX", "Payroll", "Interest", "Receivable", "Payable", "Other"}

Raised(error) == [raised |-> error]

Returned(df) == [raised |-> "None", df |-> df]

SourceRow(gl, amt, post, due, company_code, currency) ==
    [posting_date |-> post, doc_id |-> "DOC", gl_account |-> gl, amount |-> amt,
     due_date |-> due, company_code |-> company_code, currency |-> currency]

\* A structure check that finds nothing missing.
NoMissingColumns(df, required) == {}

\* _validate_structure: the required columns that the source lacks.
MissingColumns(df, required) == required \ df.columns

\* A loaded row: the row of the canonical layout, with its company_code.
LoadedRow(r, columns) ==
    [company_code |-> r.company_code,
     \* currency column not found: defaulting to EUR
     currency |-> IF "currency" \in columns THEN r.currency ELSE "EUR"]
    @@ RawRow(r.gl_account, r.amount,
              \* open_amount not provided: all amounts are open
              IF "open_amount" \in columns THEN r.open_amount ELSE r.amount,
              r.posting_date.val, r.due_date)

\* A cleaning that keeps the incomplete rows: a missing amount stays NaN and
\* a missing posting date is taken as day 1.
DropNothing(rows) ==
    [i \in 1..Len(rows) |->
        [rows[i] EXCEPT !.posting_date = IF @.nan THEN Num(1) ELSE @]]

\* dropna(subset=['posting_date', 'amount'])
DropMissing(rows) ==
    LET complete(r) == ~r.posting_date.nan /\ ~r.amount.nan
    IN  SelectSeq(rows, complete)

\* sort_values('posting_date').reset_index(drop=True): the default sort is
\* not stable, so rows of one date may come out in any order.
SortedByPostingDate(rows) ==
    {[i \in 1..Len(rows) |-> rows[p[i]]] :
        p \in {q \in Permutations(1..Len(rows)) :
                  \A i \in 1..(Len(rows) - 1) :
                      rows[q[i]].posting_date <= rows[q[i + 1]].posting_date}}

\* FAGLLoader.load with the default column mapping: the possible outcomes.
LoadFagl(source) ==
    IF MissingColumns(source, FaglRequiredColumns) # {}
    THEN {Raised("ValueError")}
    ELSE LET kept == DropMissing(source.rows)
             rows == [i \in 1..Len(kept) |-> LoadedRow(kept[i], source.columns)]
         IN  {Returned([columns |-> source.columns \cup {"open_amount", "currency"},
                        rows |-> sorted]) :
                 sorted \in SortedByPostingDate(rows)}

Date(d) == [none |-> FALSE, date |-> d]

\* filter_by_date_range on the loader's table; a bound is None or a Date.
FilterByDateRange(fagl_df, start_date, end_date) ==
    LET in(r) == /\ (start_date # None => r.posting_date >= start_date.date)
                 /\ (end_date # None => r.posting_date <= end_date.date)
    IN  [fagl_df EXCEPT !.rows = SelectSeq(fagl_df.rows, in)]

\* filter_by_entity on the loader's table.
FilterByEntity(fagl_df, entity) ==
    IF "company_code" \notin fagl_df.columns THEN fagl_df
    ELSE LET in(r) == r.company_code = entity
         IN  [fagl_df EXCEPT !.rows = SelectSeq(fagl_df.rows, in)]

\* load_fagl_data after loader.load(): both filters read loader.fagl_df, the
\* table as loaded, so the entity filter starts again from all rows.
LoadAndFilter(loaded, start_date, end_date, entity) ==
    LET by_date == IF start_date # None \/ end_date # None
                   THEN FilterByDateRange(loaded, start_date, end_date)
                   ELSE loaded
    IN  IF entity # "None" THEN FilterByEntity(loaded, entity) ELSE by_date

\* load_fagl_data(fagl_file=..., start_date, end_date, entity): the outcomes.
LoadFaglData(source, start_date, end_date, entity) ==
    {IF o.raised # "None" THEN o
     ELSE Returned(LoadAndFilter(o.df, start_date, end_date, entity)) :
        o \in LoadFagl(source)}

RECURSIVE KeepFirstAccount(_, _)
KeepFirstAccount(rows, seen) ==
    IF rows = <<>> THEN <<>>
    ELSE IF Head(rows).gl_account \in seen THEN KeepFirstAccount(Tail(rows), seen)
    ELSE <<Head(rows)>> \o KeepFirstAccount(Tail(rows), seen \cup {Head(rows).gl_account})

\* load_mapping: structure check, duplicates of a gl_account dropped (the
\* first kept), a type outside VALID_TYPES set to 'Other'.
LoadMapping(source) ==
    IF MissingColumns(source, MappingRequiredColumns) # {}
    THEN Raised("ValueError")
    ELSE LET kept == KeepFirstAccount(source.rows, {})
         IN  Returned([columns |-> source.columns \cup {"entity", "notes"},
                       rows |-> [i \in 1..Len(kept) |->
                                    [kept[i] EXCEPT
                                        !.type = IF @ \in ValidTypes THEN @
                                                 ELSE "Other"]]])

(***************************************************************************)
(* load_fagl_data on its own: a transaction source and the three filters.  *)
(***************************************************************************)
SourceColumns == FaglRequiredColumns \cup {"due_date"}

Source(columns, rows) == [columns |-> columns, rows |-> rows]

LoaderRows ==
    {SourceRow("400000", amt, post, NaN, company_code, "EUR") :
        amt \in {NaN, Num(100)},
        post \in {NaN, Num(20), Num(45), Num(70)},    \* NaT, 20 Jan, 14 Feb, 10 Mar
        company_code \in {"BG", "RO"}}

LoaderFilters ==
    [start_date : {None, Date(32)},      \* 2024-02-01
     end_date : {None, Date(60)},        \* 2024-02-29
     entity : {"None", "BG"}]

InitLoader ==
    /\ transactions \in
          {Source(SourceColumns \cup extra, rows) :
              extra \in {{}, {"company_code"}},
              rows \in SeqsUpTo(LoaderRows, MaxRows)}
    /\ config \in LoaderFilters
    /\ mapping_df = NoResult
    /\ normalizer = NoNormalizer /\ runs = <<>>
    /\ IdleAging /\ IdleAnomaly /\ IdleCli /\ IdleRatio

CallLoadFaglData ==
    /\ loaded_df = NoResult
    /\ loaded_df' \in LoadFaglData(transactions, config.start_date, config.end_date,
                                   config.entity)
    /\ UNCHANGED <<normVars, agingVars, anomVars, ratioVars, cli, engine_runs>>

NextLoader == CallLoadFaglData

SpecLoader == InitLoader /\ [][NextLoader]_vars

\* The filters the caller supplied that a loaded row has to satisfy.
SatisfiesFilters(r, columns) ==
    /\ (config.start_date # None => r.posting_date >= config.start_date.date)
    /\ (config.end_date # None => r.posting_date <= config.end_date.date)
    /\ (config.entity # "None" /\ "company_code" \in columns
           => r.company_code = config.entity)

\* C17: load_fagl_data returns exactly the loaded rows that satisfy every
\* filter supplied: posting_date >= start_date, posting_date <= end_date (both
\* inclusive) and company_code = entity; with a date range and an entity both
\* given, every returned row satisfies both.
C17_ExactlyRowsSatisfyingFilters ==
    (loaded_df # NoResult /\ loaded_df.raised = "None") =>
        \E o \in LoadFagl(transactions) :
            LET satisfies(r) == SatisfiesFilters(r, o.df.columns)
            IN  loaded_df.df.rows = SelectSeq(o.df.rows, satisfies)

(***************************************************************************)
(* DataValidator.  The quality score is kept exactly, as the fraction      *)
(* num / den with den = 100 * (distinct accounts) * (rows); the minimum    *)
(* score is given in hundredths.                                           *)
(***************************************************************************)
Min(a, b) == IF a <= b THEN a ELSE b

Max(a, b) == IF a >= b THEN a ELSE b

\* _check_unmapped_gls: the accounts of the transactions without a mapping.
CheckUnmappedGls(fagl_df, mapping, cfg) ==
    IF ~ConfigGet(cfg, "warn_unmapped_gls", TRUE) THEN {}
    ELSE {r.gl_account : r \in Range(fagl_df.rows)}
         \ {m.gl_account : m \in Range(mapping.rows)}

\* _check_date_continuity: the month ends from the first to the last
\* posting date whose month has no row.
CheckDateContinuity(fagl_df, cfg) ==
    IF ~ConfigGet(cfg, "check_date_continuity", TRUE) \/ fagl_df.rows = <<>> THEN {}
    ELSE LET dates == {r.posting_date : r \in Range(fagl_df.rows)}
             min_date == CHOOSE d \in dates : \A e \in dates : d <= e
             max_date == CHOOSE d \in dates : \A e \in dates : e <= d
         IN  {m \in 1..24 : /\ min_date <= MonthEnds[m] /\ MonthEnds[m] <= max_date
                            /\ \A d \in dates : MonthIndex(d) # m}

\* _check_duplicates: rows sharing posting_date, doc_id, gl_account, amount.
CheckDuplicates(fagl_df) ==
    LET key(r) == <<r.posting_date, r.doc_id, r.gl_account, r.amount>>
    IN  {i \in 1..Len(fagl_df.rows) :
            \E j \in 1..Len(fagl_df.rows) :
                j # i /\ key(fagl_df.rows[j]) = key(fagl_df.rows[i])}

\* _calculate_quality_score, as [num, den].
CalculateQualityScore(fagl_df, unmapped_gls, missing_dates, missing_amounts, date_gaps) ==
    LET n == Len(fagl_df.rows)
        nunique == Max(Cardinality({r.gl_account : r \in Range(fagl_df.rows)}), 1)
        rows == Max(n, 1)      \* n = 0 leaves every deduction out
        den == 100 * nunique * rows
        score == den
                 - Min(30 * Cardinality(unmapped_gls) * rows, 30 * nunique * rows)
                 - Min(50 * missing_dates * nunique, 30 * nunique * rows)
                 - Min(50 * missing_amounts * nunique, 40 * nunique * rows)
                 - Min(2 * Cardinality(date_gaps) * nunique * rows, 10 * nunique * rows)
    IN  [num |-> Max(score, 0), den |-> den]

\* quality_score >= min, the minimum in hundredths.
ScoreAtLeast(quality_score, min) == 100 * quality_score.num >= min * quality_score.den

\* validate_data(fagl_df, mapping_df, cfg): the ValidationResult.  Of the
\* warnings, those on zero amounts and on outliers are left out.
ValidateData(fagl_df, mapping, cfg) ==
    LET rows == fagl_df.rows
        missing_open == {i \in 1..Len(rows) : rows[i].open_amount.nan}
        missing_due == {i \in 1..Len(rows) : rows[i].due_date.nan}
        unmapped_gls == CheckUnmappedGls(fagl_df, mapping, cfg)
        \* a loaded posting_date is a date; isna() counts none
        missing_dates_count == 0
        missing_amounts_count == Cardinality({i \in 1..Len(rows) : rows[i].amount.nan})
        date_gaps == CheckDateContinuity(fagl_df, cfg)
        currencies == {r.currency : r \in Range(fagl_df.rows)}
        errors == IF missing_amounts_count > 0 THEN {"Missing amount"} ELSE {}
        warnings ==
            (IF unmapped_gls # {} THEN {"unmapped GL accounts"} ELSE {})
            \cup (IF "open_amount" \in fagl_df.columns
                     /\ missing_open # {}
                  THEN {"Missing open_amount"} ELSE {})
            \cup (IF "due_date" \in fagl_df.columns
                     /\ missing_due # {}
                  THEN {"Missing due_date"} ELSE {})
            \cup (IF date_gaps # {} THEN {"months with no data"} ELSE {})
            \cup (IF ConfigGet(cfg, "check_currency_consistency", TRUE)
                     /\ Cardinality(currencies) > 1
                  THEN {"Multiple currencies"} ELSE {})
            \cup (IF CheckDuplicates(fagl_df) # {}
                  THEN {"potential duplicate entries"} ELSE {})
        quality_score == CalculateQualityScore(fagl_df, unmapped_gls, missing_dates_count,
                                               missing_amounts_count, date_gaps)
    IN  [is_valid |-> errors = {}
                      /\ ScoreAtLeast(quality_score,
                                      ConfigGet(cfg, "min_data_quality_score", 70)),
         quality_score |-> quality_score,
         errors |-> errors,
         warnings |-> warnings,
         unmapped_gls |-> unmapped_gls,
         missing_dates_count |-> missing_dates_count,
         missing_amounts_count |-> missing_amounts_count,
         date_gaps |-> date_gaps]

(***************************************************************************)
(* cli.main, step by step.  transactions and mapping_df are the two source *)
(* files, config is cfg.__dict__; cli holds main's position (pc), its      *)
(* local variables, the steps executed so far, the files written and how   *)
(* the run ended.  An exception anywhere in the body is caught by main's   *)
(* `except Exception` and ends the run with sys.exit(1).  The trend,       *)
(* forecast and commentary engines and the report writers appear as steps  *)
(* only; their results are not modelled.                                   *)
(***************************************************************************)
MainConfig(dry_run, min_data_quality_score) ==
    [amount_sign_convention |-> "positive_debit",
     default_currency |-> "EUR",
     start_date |-> None, end_date |-> None, entity |-> "None",
     aging_buckets |-> DefaultAgingBuckets,
     enable_growth_metrics |-> TRUE, enable_ratios |-> TRUE,
     anomaly_threshold_zscore |-> DefaultZscoreThreshold,
     anomaly_threshold_mad |-> DefaultMadThreshold,
     use_isolation_forest |-> TRUE,
     enable_forecasting |-> TRUE,
     overdue_threshold_days |-> 30,
     warn_unmapped_gls |-> TRUE, check_date_continuity |-> TRUE,
     check_currency_consistency |-> TRUE,
     min_data_quality_score |-> min_data_quality_score,
     dry_run |-> dry_run]

MainConfigs ==
    {MainConfig(dry_run, min) : dry_run \in BOOLEAN, min \in {70, 50}}

\* Rows of a transaction file: a mapped and an unmapped account, postings in
\* January and in April, a row without amount, a row without posting date.
MainRows ==
    {SourceRow(gl, c[1], c[2], Num(92), "BG", currency) :
        gl \in {"400000", "999999"},
        c \in {<<Num(100), Num(15)>>, <<Num(100), Num(110)>>,
               <<NaN, Num(51)>>, <<Num(100), NaN>>},
        currency \in {"EUR", "USD"}}

MainColumns == SourceColumns \cup {"currency"}

\* The transaction files: every required column present and at least one
\* row with posting date and amount, or one required column missing.
MainSources ==
    {Source(MainColumns, rows) :
        rows \in {s \in SeqsUpTo(MainRows, MaxRows) : DropMissing(s) # <<>>}}
    \cup {Source(MainColumns \ {c}, <<SourceRow("400000", Num(100), Num(15), Num(92),
                                                   "BG", "EUR")>>) :
             c \in FaglRequiredColumns}

MainMappingSources ==
    {MappingTable(<<MappingRow("400000", "Revenue - Product A", "Revenue"),
                    MappingRow("400000", "Revenue - Product B", "Revenue")>>)}
    \cup {[columns |-> {"gl_account", "bucket", "type", "entity"} \ {c},
           rows |-> <<MappingRow("400000", "Revenue - Product A", "Revenue")>>] :
             c \in MappingRequiredColumns}

StepsOfAnalysis ==
    <<"calculate_kpis", "analyze_trends", "calculate_aging", "detect_anomalies",
      "generate_forecasts", "generate_commentary">>

InitMain ==
    /\ transactions \in MainSources
    /\ mapping_df \in MainMappingSources
    /\ config \in MainConfigs
    /\ cli = [none |-> FALSE, pc |-> "load_mapping", steps |-> <<>>,
              exit |-> "running", reports |-> {},
              mapping_df |-> None, fagl_df |-> None, validation_result |-> None,
              normalized_df |-> None, kpi_result |-> None, aging_result |-> None,
              anomaly_result |-> None]
    /\ loaded_df = NoResult /\ engine_runs = <<>>
    /\ normalizer = NoNormalizer /\ runs = <<>>
    /\ IdleAging /\ IdleAnomaly /\ IdleRatio

At(pc) == ~cli.none /\ cli.exit = "running" /\ cli.pc = pc

\* except Exception as e: ... sys.exit(1)
Failed(step) ==
    [cli EXCEPT !.pc = "done", !.exit = "sys.exit(1)", !.steps = Append(@, step)]

\* Step 1: mapping_df = load_mapping(cfg.mapping_file)
MainLoadMapping ==
    /\ At("load_mapping")
    /\ LET o == LoadMapping(mapping_df)
       IN  cli' = IF o.raised # "None" THEN Failed("load_mapping")
                  ELSE [cli EXCEPT !.mapping_df = o.df,
                                   !.pc = "load_fagl_data",
                                   !.steps = Append(@, "load_mapping")]
    /\ UNCHANGED <<normVars, agingVars, anomVars, ratioVars, loaded_df, engine_runs>>

\* Step 2: fagl_df = load_fagl_data(...)
MainLoadFaglData ==
    /\ At("load_fagl_data")
    /\ \E o \in LoadFaglData(transactions, config.start_date, config.end_date,
                             config.entity) :
          /\ loaded_df' = o
          /\ cli' = IF o.raised # "None" THEN Failed("load_fagl_data")
                    ELSE [cli EXCEPT !.fagl_df = o.df,
                                     !.pc = "validate_data",
                                     !.steps = Append(@, "load_fagl_data")]
    /\ UNCHANGED <<normVars, agingVars, anomVars, ratioVars, engine_runs>>

\* Step 3: validation_result = validate_data(fagl_df, mapping_df, cfg.__dict__);
\* an invalid result ends a run that is not a dry run, a dry run stops here.
MainValidateData ==
    /\ At("validate_data")
    /\ LET validation_result == ValidateData(cli.fagl_df, cli.mapping_df, config)
           validated == [cli EXCEPT !.validation_result = validation_result,
                                    !.steps = Append(@, "validate_data")]
       IN  cli' = IF ~validation_result.is_valid /\ ~config.dry_run
                  THEN [validated EXCEPT !.pc = "done", !.exit = "sys.exit(1)"]
                  ELSE IF config.dry_run
                  THEN [validated EXCEPT !.pc = "done", !.exit = "return"]
                  ELSE [validated EXCEPT !.pc = "normalize_data"]
    /\ UNCHANGED <<normVars, agingVars, anomVars, ratioVars, loaded_df, engine_runs>>

\* Step 4: normalized_df = normalize_data(fagl_df, mapping_df, cfg.__dict__)
MainNormalizeData ==
    /\ At("normalize_data")
    /\ cli' = [cli EXCEPT
                  !.normalized_df = NormalizeDf(InitFaglDf(cli.fagl_df).df,
                                                cli.mapping_df, config),
                  !.pc = "analyze", !.steps = Append(@, "normalize_data")]
    /\ UNCHANGED <<normVars, agingVars, anomVars, ratioVars, loaded_df, engine_runs>>

\* Steps 5 to 10: the output directory and the engines, each on normalized_df.
MainAnalyze ==
    /\ At("analyze")
    /\ \E forests \in ForestOutcomes(cli.normalized_df, config) :
          cli' = [cli EXCEPT
                     !.kpi_result = CalculateAll(cli.normalized_df, config),
                     !.aging_result = AnalyzeAll(cli.normalized_df, config),
                     !.anomaly_result = DetectAll(cli.normalized_df, config, forests),
                     !.pc = "generate_reports",
                     !.steps = @ \o StepsOfAnalysis]
    /\ UNCHANGED <<normVars, agingVars, anomVars, ratioVars, loaded_df, engine_runs>>

\* Step 11: the files written into the output directory.
MainGenerateReports ==
    /\ At("generate_reports")
    /\ cli' = [cli EXCEPT
                  !.pc = "done", !.exit = "return",
                  !.steps = Append(@, "generate_reports"),
                  !.reports = {"mapped_data.parquet", "summary.xlsx",
                               "executive_deck.pptx", "commentary.txt",
                               "email_summary.txt", "data_quality_report.json"}
                              \cup (IF cli.validation_result.unmapped_gls # {}
                                    THEN {"unmapped_gls.csv"} ELSE {})]
    /\ UNCHANGED <<normVars, agingVars, anomVars, ratioVars, loaded_df, engine_runs>>

NextMain ==
    \/ MainLoadMapping
    \/ MainLoadFaglData
    \/ MainValidateData
    \/ MainNormalizeData
    \/ MainAnalyze
    \/ MainGenerateReports

SpecMain == InitMain /\ [][NextMain]_vars

(***************************************************************************)
(* Claims about the run of main.                                           *)
(***************************************************************************)
Executed(step) == ~cli.none /\ \E i \in 1..Len(cli.steps) : cli.steps[i] = step

Validated == Executed("validate_data")

ScoreSufficient ==
    ScoreAtLeast(cli.validation_result.quality_score, config.min_data_quality_score)

Finished == ~cli.none /\ cli.pc = "done"

Lacks(source, columns) == \E c \in columns : c \notin source.columns

\* C15: when the transaction source lacks posting_date, doc_id, gl_account
\* or amount, or the mapping source lacks gl_account, bucket or type, the
\* load raises an error, and in that run no validation, normalization or
\* analysis step is executed and no report is written.
C15_MissingColumnsAbortBeforeValidation ==
    (~cli.none /\ (Lacks(transactions, {"posting_date", "doc_id", "gl_account", "amount"})
                   \/ Lacks(mapping_df, {"gl_account", "bucket", "type"}))) =>
        /\ ~Executed("validate_data") /\ ~Executed("normalize_data")
        /\ \A i \in 1..Len(StepsOfAnalysis) : ~Executed(StepsOfAnalysis[i])
        /\ ~Executed("generate_reports") /\ cli.reports = {}
        /\ cli.pc \in {"load_mapping", "load_fagl_data", "done"}
        /\ Finished => cli.exit = "sys.exit(1)"
        /\ loaded_df # NoResult => loaded_df.raised = "ValueError"
        /\ (Executed("load_mapping") /\ Lacks(mapping_df, {"gl_account", "bucket", "type"}))
              => Finished

\* A finished run whose mapping was loaded and whose transaction file has no
\* amount column.
C15_TransactionSourceWithoutAmount ==
    /\ Finished
    /\ "amount" \notin transactions.columns
    /\ cli.steps = <<"load_mapping", "load_fagl_data">>
    /\ loaded_df = Raised("ValueError")
    /\ cli.exit = "sys.exit(1)"

(***************************************************************************)
(* The engines on one canonical table.  Each engine keeps a reference to   *)
(* the table (self.df = df) and works on derived frames: groupby results   *)
(* and `.copy()` slices.  Of the trend and the forecast engine the model   *)
(* keeps the monthly series per type that their fits are computed from.    *)
(***************************************************************************)
MaxEngineRuns == 2   \* engine runs on one canonical table

Engines == {"calculate_kpis", "calculate_aging", "detect_anomalies",
            "analyze_trends", "generate_forecasts"}

\* The columns an engine assigns (days_overdue, aging_bucket, zscore, ...)
\* are assigned in a copy or in a groupby result.
AssignedInPlace(df, columns) == [df EXCEPT !.columns = @ \cup columns]

AssignedInCopy(df, columns) == df

\* groupby(['year_month', 'type'])['amount'].sum()
MonthlyByType(df, types) ==
    LET keys == {<<r.year_month, r.type>> : r \in {x \in Range(df.rows) : x.type \in types}}
    IN  [k \in keys |->
            SumAmounts(df.rows, {i \in 1..Len(df.rows) :
                                    /\ df.rows[i].year_month = k[1]
                                    /\ df.rows[i].type = k[2]
                                    /\ ~df.rows[i].amount.nan})]

AnalyzeTrends(df, cfg) ==
    [monthly |-> MonthlyByType(df, {r.type : r \in Range(df.rows)})]

GenerateForecasts(df, cfg) ==
    IF ~ConfigGet(cfg, "enable_forecasting", TRUE) THEN [empty |-> TRUE]
    ELSE [empty |-> FALSE, monthly |-> MonthlyByType(df, {"Revenue", "OPEX", "Payroll"})]

\* The result of one engine on a table; forests is what the isolation
\* forests (random_state=42) answer for the table's buckets.
EngineResult(engine, df, cfg, forests) ==
    CASE engine = "calculate_kpis" -> CalculateAll(df, cfg)
      [] engine = "calculate_aging" -> AnalyzeAll(df, cfg)
      [] engine = "detect_anomalies" -> DetectAll(df, cfg, forests)
      [] engine = "analyze_trends" -> AnalyzeTrends(df, cfg)
      [] engine = "generate_forecasts" -> GenerateForecasts(df, cfg)

\* The columns an engine assigns while it runs.
EngineColumns(engine) ==
    CASE engine = "calculate_kpis" -> {"pct_of_total"}
      [] engine = "calculate_aging" -> {"days_overdue", "aging_bucket"}
      [] engine = "detect_anomalies" -> {"zscore", "mad_score", "is_anomaly",
                                         "anomaly_score"}
      [] engine = "analyze_trends" -> {}
      [] engine = "generate_forecasts" -> {}

EngineRows ==
    {RawRow(gl, Num(100), Num(25), post, Num(post + 30)) :
        gl \in {"400000", "120000", "999999"}, post \in {15, 92}}

EngineMapping ==
    MappingTable(<<MappingRow("400000", "Revenue - Product A", "Revenue"),
                   MappingRow("120000", "Receivables - Customers", "Receivable")>>)

InitEngines ==
    /\ transactions \in {Table(rows) : rows \in SeqsUpTo(EngineRows, MaxRows)}
    /\ mapping_df = EngineMapping
    /\ config \in Configs
    /\ normalizer = NoNormalizer /\ runs = <<>>
    /\ IdleAging /\ IdleAnomaly /\ IdleCli /\ IdleRatio

\* calculate_kpis, analyze_trends, calculate_aging, detect_anomalies or
\* generate_forecasts called with the canonical table.
RunEngine ==
    /\ canonical # NoResult
    /\ Len(engine_runs) < MaxEngineRuns
    /\ \E engine \in Engines, forests \in ForestOutcomes(canonical, config) :
          /\ engine_runs' = Append(engine_runs,
                                   [engine |-> engine, df |-> canonical,
                                    forests |-> forests,
                                    result |-> EngineResult(engine, canonical, config,
                                                            forests)])
          /\ canonical' = AssignedInCopy(canonical, EngineColumns(engine))
    /\ UNCHANGED <<normVars, aging_result, anomVars, ratioVars, loaded_df, cli>>

NextEngines == NormalizeData \/ RunEngine

SpecEngines == InitEngines /\ [][NextEngines]_vars

OverdueRows ==
    {RawRow("120000", Num(100), o, post, due) :
        o \in {NaN, Num(0), Num(25)},
        post \in {15, 92},                      \* 2024-01-15, 2024-04-01
        due \in {NaN, Num(45), Num(100)}}       \* none, 2024-02-14, 2024-04-09

OverdueTables ==
    {Table(rows) : rows \in SeqsUpTo(OverdueRows, MaxRows)}
    \cup {[columns |-> RawColumns, rows |-> rows] :
             rows \in SeqsUpTo({r \in OverdueRows : r.due_date.nan}, MaxRows)}

OverdueConfigs ==
    {[amount_sign_convention |-> "positive_debit"]}
    \cup {[amount_sign_convention |-> "positive_debit", overdue_threshold_days |-> t] :
             t \in {30, 47}}

InitOverdue ==
    /\ transactions \in OverdueTables
    /\ mapping_df = AgingMapping
    /\ config \in OverdueConfigs
    /\ normalizer = NoNormalizer /\ runs = <<>>
    /\ IdleAging /\ IdleAnomaly /\ IdleCli /\ IdleRatio

SpecOverdue == InitOverdue /\ [][NextAging]_vars

\* The as-of date: the latest posting date of the whole input.
AsOfDate ==
    CHOOSE d \in {transactions.rows[i].posting_date : i \in 1..Len(transactions.rows)} :
        \A i \in 1..Len(transactions.rows) : transactions.rows[i].posting_date <= d

\* C18: when a row has a due date, its days_overdue is the number of days
\* from the due date to the as-of date, the latest posting date of the whole
\* input (not the wall clock); it is negative for an item not yet due.
C18_DaysOverdueFromLatestPosting ==
    (canonical # NoResult /\ "due_date" \in transactions.columns) =>
        \A i \in 1..Len(canonical.rows) :
            NotNa(transactions.rows[i].due_date) =>
                /\ canonical.rows[i].days_overdue
                      = Num(AsOfDate - transactions.rows[i].due_date.val)
                /\ (transactions.rows[i].due_date.val > AsOfDate
                       => canonical.rows[i].days_overdue.val < 0)

\* A normalized table with an item past its due date and an item not yet due;
\* the first was posted before the as-of date.
C18_PastDueAndNotYetDue ==
    /\ canonical # NoResult /\ "due_date" \in transactions.columns
    /\ \E i, j \in 1..Len(canonical.rows) :
          /\ NotNa(canonical.rows[i].days_overdue)
          /\ canonical.rows[i].days_overdue.val > 0
          /\ canonical.rows[i].posting_date < AsOfDate
          /\ NotNa(canonical.rows[j].days_overdue)
          /\ canonical.rows[j].days_overdue.val < 0

\* C19: when the input has no due_date column at all, after normalize and
\* aging each open item is aged by days_overdue = as-of date minus
\* (posting_date + 30 days), and a warning is emitted.
C19_FallbackDueDate ==
    (aging_result # NoResult /\ "due_date" \notin transactions.columns) =>
        /\ \A k \in 1..Len(aging_result.ar_items) :
              aging_result.ar_items[k].days_overdue
                  = Num(AsOfDate
                        - (transactions.rows[aging_result.ar_items[k].row].posting_date
                           + 30))
        /\ (aging_result.ar_items # <<>> => aging_result.warnings # {})

OverdueThreshold ==
    IF "overdue_threshold_days" \in DOMAIN config THEN config.overdue_threshold_days
    ELSE 0

\* C20: after normalize, is_overdue is true exactly for the rows whose
\* days_overdue is strictly greater than the configured overdue threshold
\* and whose open_amount is present and not zero; a row without due date is
\* never overdue.
C20_OverdueIffLateAndOpen ==
    canonical # NoResult =>
        \A i \in 1..Len(canonical.rows) :
            LET r == canonical.rows[i]
            IN  /\ r.is_overdue <=> (/\ NotNa(r.days_overdue)
                                     /\ r.days_overdue.val > OverdueThreshold
                                     /\ NotNa(r.open_amount)
                                     /\ r.open_amount.val # 0)
                /\ (("due_date" \notin transactions.columns
                     \/ transactions.rows[i].due_date.nan) => ~r.is_overdue)

\* A normalized table with an overdue item next to an item as many days
\* late that is not overdue, its open amount missing or zero.
C20_LateOpenAndLateSettled ==
    /\ canonical # NoResult
    /\ \E i, j \in 1..Len(canonical.rows) :
          /\ canonical.rows[i].is_overdue
          /\ ~canonical.rows[j].is_overdue
          /\ canonical.rows[j].days_overdue = canonical.rows[i].days_overdue

(***************************************************************************)
(* C21.  The list detect_all returns is ordered by severity, every "high"  *)
(* anomaly before every "medium" and every "medium" before every "low",    *)
(* and among anomalies of equal severity by the absolute deviation_pct in  *)
(* ascending order.                                                        *)
(***************************************************************************)
AbsPctLe(a, b) ==
    Abs(a.deviation_pct.num) * b.deviation_pct.den
        <= Abs(b.deviation_pct.num) * a.deviation_pct.den

C21_OrderedBySeverityThenAbsDeviation ==
    ~anomaly_result.none =>
        \A i, j \in 1..Len(anomaly_result.anomalies) :
            i < j =>
                LET a == anomaly_result.anomalies[i]
                    b == anomaly_result.anomalies[j]
                IN  /\ SeverityOrder(a.severity) <= SeverityOrder(b.severity)
                    /\ a.severity = b.severity => AbsPctLe(a, b)

\* A result with anomalies of two severities and with two anomalies of one
\* severity whose absolute deviations differ, flagged in the other order.
C21_MixedSeveritiesAndEqualSeverityPair ==
    /\ ~anomaly_result.none
    /\ \E i, j \in 1..Len(anomaly_result.anomalies) :
          anomaly_result.anomalies[i].severity # anomaly_result.anomalies[j].severity
    /\ \E i, j \in 1..Len(anomaly_result.anomalies) :
          /\ i < j
          /\ anomaly_result.anomalies[i].severity = anomaly_result.anomalies[j].severity
          /\ ~AbsPctLe(anomaly_result.anomalies[j], anomaly_result.anomalies[i])
          /\ DedupKey(anomaly_result.anomalies[j]) < DedupKey(anomaly_result.anomalies[i])

(***************************************************************************)
(* detect_anomalies under a mapping in which the bucket label "Other" is   *)
(* shared by a revenue account and an expense account.                     *)
(***************************************************************************)
SharedBucketMapping ==
    MappingTable(<<MappingRow("400000", "Other", "Revenue"),
                   MappingRow("600100", "Other", "OPEX")>>)

SharedHistories == {3, 5, 6}

\* The revenue account's histories, and the expense account's without spike.
SharedRevenueHistories ==
    UNION {{HistoryRows("400000", n, base, spike) :
               base \in {"flat", "alternating"}, spike \in Spikes(n)} :
           n \in SharedHistories}

SharedExpenseHistories ==
    {HistoryRows("600100", n, "alternating", NoSpike) : n \in SharedHistories}

InitSharedBucket ==
    /\ transactions \in {Table(r \o x) : r \in SharedRevenueHistories,
                                         x \in SharedExpenseHistories}
    /\ mapping_df = SharedBucketMapping
    /\ config \in AnomalyConfigs
    /\ normalizer = NoNormalizer
    /\ runs = <<>>
    /\ IdleAging /\ IdleAnomaly /\ IdleCli /\ IdleRatio

SpecSharedBucket == InitSharedBucket /\ [][NextAnomaly]_vars

\* The monthly periods in which the table has postings of a bucket.
PeriodsOf(df, bucket) ==
    {df.rows[i].year_month : i \in {k \in 1..Len(df.rows) : df.rows[k].bucket = bucket}}

(***************************************************************************)
(* C22.  A bucket with fewer than 6 monthly periods of history yields no   *)
(* "zscore" and no "mad" anomaly and a bucket with fewer than 10 monthly   *)
(* periods yields no "isolation_forest" anomaly, also when the bucket      *)
(* label is shared by accounts of different types.                         *)
(***************************************************************************)
C22_ShortHistoryYieldsNoAnomaly ==
    (canonical # NoResult /\ ~anomaly_result.none) =>
        \A i \in 1..Len(anomaly_result.flagged) :
            LET f == anomaly_result.flagged[i]
                periods == Cardinality(PeriodsOf(canonical, f.bucket))
            IN  /\ f.method \in {"zscore", "mad"} => periods >= 6
                /\ f.method = "isolation_forest" => periods >= 10

(***************************************************************************)
(* C23.  Each of the liquidity, solvency and cash-flow sub-scores is the   *)
(* mean, over the applicable ratios of the category, of the points         *)
(* excellent = 90, good = 75, warning = 50, critical = 25, and is exactly  *)
(* 50 when the category has no applicable ratio; hence every sub-score     *)
(* lies between 25 and 90.                                                 *)
(***************************************************************************)
ApplicableOf(category, status) ==
    {k \in 1..Len(analysis.ratios) :
        /\ analysis.ratios[k].applicable
        /\ analysis.ratios[k].category = category
        /\ analysis.ratios[k].status = status}

PointsOf(category) ==
    90 * Cardinality(ApplicableOf(category, "excellent"))
    + 75 * Cardinality(ApplicableOf(category, "good"))
    + 50 * Cardinality(ApplicableOf(category, "warning"))
    + 25 * Cardinality(ApplicableOf(category, "critical"))

CountOf(category) ==
    Cardinality(UNION {ApplicableOf(category, s) :
                          s \in {"excellent", "good", "warning", "critical"}})

IsMeanOfPoints(score, category) ==
    /\ score.den > 0
    /\ IF CountOf(category) = 0
       THEN score.num = 50 * score.den
       ELSE score.num * CountOf(category) = PointsOf(category) * score.den
    /\ 25 * score.den <= score.num
    /\ score.num <= 90 * score.den

C23_SubScoresAreMeansOfPoints ==
    Analyzed =>
        /\ IsMeanOfPoints(analysis.going_concern.liquidity_score, "Liquidity")
        /\ IsMeanOfPoints(analysis.going_concern.solvency_score, "Solvency")
        /\ IsMeanOfPoints(analysis.going_concern.cash_flow_score, "Cash Flow")

\* An analysis in which no solvency ratio is applicable, the liquidity ratios
\* have critical and excellent statuses among them and the cash-flow score is
\* a mean that is not a whole number of points.
C23_DefaultAndMixedCategories ==
    /\ Analyzed
    /\ CountOf("Solvency") = 0
    /\ ApplicableOf("Liquidity", "critical") # {}
    /\ ApplicableOf("Liquidity", "excellent") # {}
    /\ PointsOf("Cash Flow") % CountOf("Cash Flow") # 0

(***************************************************************************)
(* C24.  key_risks holds at most 5 statements, every statement derived     *)
(* from a critical-status ratio precedes every statement derived from a    *)
(* warning-status ratio, and every applicable critical-status ratio yields *)
(* a risk statement as long as the cap of 5 is not reached; key_strengths  *)
(* holds at most 5 statements, one per applicable excellent-status ratio.  *)
(* Stated for the first analyze call of an analyzer.                       *)
(***************************************************************************)
ApplicableNames(status) ==
    {analysis.ratios[k].ratio_name :
        k \in {j \in 1..Len(analysis.ratios) :
                  /\ analysis.ratios[j].applicable
                  /\ analysis.ratios[j].status = status}}

C24_RisksAndStrengthsPerRatio ==
    (Analyzed /\ analyzer.calls = 1) =>
        LET key_risks == analysis.going_concern.key_risks
            key_strengths == analysis.going_concern.key_strengths
            from_warning(k) == key_risks[k].text = "Moderate risk"
            critical_names == {key_risks[k].ratio_name :
                                  k \in {j \in 1..Len(key_risks) : ~from_warning(j)}}
        IN  /\ Len(key_risks) <= 5
            /\ \A i, j \in 1..Len(key_risks) :
                  (~from_warning(i) /\ from_warning(j)) => i < j
            /\ critical_names \subseteq ApplicableNames("critical")
            /\ Len(key_risks) < 5 => ApplicableNames("critical") \subseteq critical_names
            /\ Len(key_strengths) <= 5
            /\ NamesIn(key_strengths) \subseteq ApplicableNames("excellent")
            /\ Len(key_strengths) = Cardinality(NamesIn(key_strengths))
            /\ Len(key_strengths) < 5 =>
                  ApplicableNames("excellent") \subseteq NamesIn(key_strengths)

(***************************************************************************)
(* C25.  The recommendations contain the liquidity (URGENT), solvency      *)
(* (CRITICAL) or cash-flow (HIGH PRIORITY) recommendation exactly for      *)
(* those of the three categories that have at least one applicable ratio   *)
(* with status "critical".  Stated for the first analyze call.             *)
(***************************************************************************)
Recommends(text) ==
    \E k \in 1..Len(analysis.going_concern.recommendations) :
        analysis.going_concern.recommendations[k] = text

C25_RecommendationIffCriticalRatio ==
    (Analyzed /\ analyzer.calls = 1) =>
        /\ Recommends("URGENT") <=> ApplicableOf("Liquidity", "critical") # {}
        /\ Recommends("CRITICAL") <=> ApplicableOf("Solvency", "critical") # {}
        /\ Recommends("HIGH PRIORITY") <=> ApplicableOf("Cash Flow", "critical") # {}

(***************************************************************************)
(* normalize_data followed by calculate_kpis on monthly revenue histories  *)
(* of one to fourteen months, with or without a month without postings,    *)
(* whose first and last months are positive, zero or negative.             *)
(***************************************************************************)
GrowthMapping ==
    MappingTable(<<MappingRow("400000", "Revenue - Product A", "Revenue")>>)

GrowthHistories == {1, 2, 11, 12, 13, 14}

GrowthAmounts == {-5, 0, 10}

\* One posting in each of n months; with a gap the second calendar month is
\* skipped.
GrowthRows(n, first_amount, last_amount, gap) ==
    LET month(k) == IF gap /\ k >= 2 THEN k + 1 ELSE k
        amount(k) == IF k = 1 THEN first_amount
                     ELSE IF k = n THEN last_amount ELSE 10
    IN  List([k \in 1..n |->
                 RawRow("400000", Num(amount(k)), NaN, MidMonth(month(k)), NaN)])

InitGrowth ==
    /\ transactions \in {Table(GrowthRows(n, a, b, gap)) :
                            n \in GrowthHistories, a \in GrowthAmounts,
                            b \in GrowthAmounts, gap \in BOOLEAN}
    /\ mapping_df = GrowthMapping
    /\ config \in Configs
    /\ normalizer = NoNormalizer
    /\ runs = <<>>
    /\ IdleAging /\ IdleAnomaly /\ IdleCli /\ IdleRatio

SpecGrowth == InitGrowth /\ [][NextPipeline]_vars

(***************************************************************************)
(* C26.  growth_metrics contains the year-over-year revenue growth only    *)
(* when at least 13 months of monthly data exist, and revenue_cagr only    *)
(* when at least 12 months exist and the revenue of both the first and the *)
(* last month is strictly positive; otherwise the metric is omitted, and   *)
(* the CAGR never divides by zero or takes a root of a negative number.    *)
(***************************************************************************)
C26_GrowthMetricsGuarded ==
    \A k \in 1..Len(runs) :
        LET growth == runs[k].kpis.growth_metrics
            monthly == runs[k].kpis.monthly_kpis
            n == Len(monthly)
        IN  /\ growth.empty <=> n < 2
            /\ ~growth.empty =>
                  /\ growth.latest_revenue_yoy # None <=> n >= 13
                  /\ growth.revenue_cagr # None <=>
                        (n >= 12 /\ monthly[1].revenue > 0 /\ monthly[n].revenue > 0)
                  /\ growth.revenue_cagr # None =>
                        /\ growth.revenue_cagr.base.den > 0
                        /\ growth.revenue_cagr.base.num > 0
                        /\ growth.revenue_cagr.periods.num >= 12

\* Twelve months of data spread over thirteen calendar months: the CAGR is
\* reported, the year-over-year growth is omitted.
C26_TwelveMonthsCagrWithoutYoy ==
    /\ Len(runs) >= 1
    /\ Len(runs[1].kpis.monthly_kpis) = 12
    /\ runs[1].kpis.monthly_kpis[12].year_month - runs[1].kpis.monthly_kpis[1].year_month
           = 12
    /\ runs[1].kpis.growth_metrics.revenue_cagr # None
    /\ runs[1].kpis.growth_metrics.latest_revenue_yoy = None

(***************************************************************************)
(* KPICalculator.calculate_dso and calculate_dpo.  The result is None or   *)
(* the exact quotient outstanding / (recent / 90).                         *)
(***************************************************************************)
RECURSIVE SumOpenAmounts(_, _)
SumOpenAmounts(rows, I) ==
    IF I = {} THEN 0
    ELSE LET i == CHOOSE x \in I : TRUE
         IN  (IF rows[i].open_amount.nan THEN 0 ELSE rows[i].open_amount.val)
             + SumOpenAmounts(rows, I \ {i})

\* The rows of self.df[flag & (self.df['posting_date'] >= start_date)]
RecentRows(df, flow, start_date) ==
    {i \in flow : df.rows[i].posting_date >= start_date}

\* The body shared by calculate_dso and calculate_dpo: `side` are the
\* receivable (payable) rows, `flow` the revenue (OPEX) rows.
DaysOutstanding(df, side, flow) ==
    LET dates == {df.rows[i].posting_date : i \in side}
        recent_date == CHOOSE d \in dates : \A e \in dates : e <= d
        start_date == recent_date - 90
        recent == SumAmounts(df.rows, {i \in RecentRows(df, flow, start_date) :
                                          ~df.rows[i].amount.nan})
        outstanding == IF "open_amount" \in df.columns
                       THEN SumOpenAmounts(df.rows, side)
                       ELSE SumAmounts(df.rows, {i \in side : ~df.rows[i].amount.nan})
    IN  IF side = {} THEN None
        ELSE IF recent <= 0 THEN None
        ELSE Value(outstanding * 90, recent)

CalculateDso(df, cfg) ==
    IF ~ConfigGet(cfg, "calculate_dso", TRUE) THEN None
    ELSE DaysOutstanding(df, {i \in 1..Len(df.rows) : df.rows[i].is_receivable},
                             {i \in 1..Len(df.rows) : df.rows[i].is_revenue})

CalculateDpo(df, cfg) ==
    IF ~ConfigGet(cfg, "calculate_dpo", TRUE) THEN None
    ELSE DaysOutstanding(df, {i \in 1..Len(df.rows) : df.rows[i].is_payable},
                             {i \in 1..Len(df.rows) : df.rows[i].is_opex})

(***************************************************************************)
(* normalize_data, then calculate_dso and calculate_dpo of a KPICalculator *)
(* on the normalized table, each called once in either order.  The table   *)
(* has at most one receivable or payable item and revenue and expense      *)
(* postings before, at and after its date.                                 *)
(***************************************************************************)
DaysMapping ==
    MappingTable(<<MappingRow("120000", "Receivables - Customers", "Receivable"),
                   MappingRow("230100", "Payables - Suppliers", "Payable"),
                   MappingRow("400000", "Revenue - Product A", "Revenue"),
                   MappingRow("600100", "OPEX - Marketing", "OPEX")>>)

DaysPostingDates == {15, 92, 200}      \* 2024-01-15, 2024-04-01, 2024-07-18

DaysSideRows ==
    {RawRow(gl, Num(100), o, post, NaN) :
        gl \in {"120000", "230100"}, o \in {NaN, Num(25)}, post \in DaysPostingDates}

DaysFlowRows ==
    {RawRow(gl, Num(a), NaN, post, NaN) :
        gl \in {"400000", "600100"}, a \in {90, -90}, post \in DaysPostingDates}

DaysConfigs ==
    {[amount_sign_convention |-> "positive_debit"],
     [amount_sign_convention |-> "positive_debit",
      calculate_dso |-> FALSE, calculate_dpo |-> FALSE]}

InitDays ==
    /\ transactions \in
           {Table(s \o f) : s \in {<<>>} \cup {<<r>> : r \in DaysSideRows},
                            f \in SeqsUpTo(DaysFlowRows, MaxRows)}
    /\ mapping_df = DaysMapping
    /\ config \in DaysConfigs
    /\ normalizer = NoNormalizer
    /\ runs = <<>>
    /\ IdleAging /\ IdleAnomaly /\ IdleCli /\ IdleRatio

Called(method) == \E k \in 1..Len(runs) : runs[k].method = method

\* dso = KPICalculator(normalized_df, config).calculate_dso()
CallCalculateDso ==
    /\ canonical # NoResult
    /\ ~Called("calculate_dso")
    /\ runs' = Append(runs, [method |-> "calculate_dso",
                             result |-> CalculateDso(canonical, config)])
    /\ UNCHANGED <<transactions, mapping_df, config, normalizer>>
    /\ UNCHANGED <<agingVars, anomVars, ratioVars, cliVars>>

\* dpo = KPICalculator(normalized_df, config).calculate_dpo()
CallCalculateDpo ==
    /\ canonical # NoResult
    /\ ~Called("calculate_dpo")
    /\ runs' = Append(runs, [method |-> "calculate_dpo",
                             result |-> CalculateDpo(canonical, config)])
    /\ UNCHANGED <<transactions, mapping_df, config, normalizer>>
    /\ UNCHANGED <<agingVars, anomVars, ratioVars, cliVars>>

NextDays == NormalizeData \/ CallCalculateDso \/ CallCalculateDpo

SpecDays == InitDays /\ [][NextDays]_vars

(***************************************************************************)
(* C27.  calculate_dso divides the total outstanding receivable            *)
(* open_amount by the average daily revenue of the trailing 90-day window  *)
(* that ends at the latest receivable posting date: only revenue rows with *)
(* posting_date inside that window (not later than the latest receivable   *)
(* posting date) count; calculate_dpo does the same with OPEX and          *)
(* payables; each returns None when the daily average is <= 0.             *)
(***************************************************************************)
WindowDays(side, flow) ==
    LET rows == canonical.rows
        dates == {rows[i].posting_date : i \in side}
        recent_date == CHOOSE d \in dates : \A e \in dates : e <= d
        window == {i \in flow : /\ rows[i].posting_date >= recent_date - 90
                                /\ rows[i].posting_date <= recent_date}
        recent == SumAmounts(rows, {i \in window : ~rows[i].amount.nan})
    IN  IF recent <= 0 THEN None
        ELSE Value(SumOpenAmounts(rows, side) * 90, recent)

SameDays(a, b) ==
    IF a = None \/ b = None THEN a = b
    ELSE a.den > 0 /\ b.den > 0 /\ a.num * b.den = b.num * a.den

C27_DaysFromTrailingWindow ==
    \A k \in 1..Len(runs) :
        LET rows == canonical.rows
            dso == runs[k].method = "calculate_dso"
            side == {i \in 1..Len(rows) :
                        IF dso THEN rows[i].is_receivable ELSE rows[i].is_payable}
            flow == {i \in 1..Len(rows) :
                        IF dso THEN rows[i].is_revenue ELSE rows[i].is_opex}
        IN  (side # {} /\ ConfigGet(config, runs[k].method, TRUE)) =>
                SameDays(runs[k].result, WindowDays(side, flow))

(***************************************************************************)
(* C28.  Every call of analyze returns exactly one RatioResult per         *)
(* configured ratio name (20 entries, each name once), also when analyze   *)
(* is called more than once on the same analyzer.                          *)
(***************************************************************************)
C28_OneResultPerRatioEveryCall ==
    Analyzed =>
        /\ Len(analysis.ratios) = Cardinality(DOMAIN RatioConfigs)
        /\ \A name \in DOMAIN RatioConfigs :
              Cardinality({k \in 1..Len(analysis.ratios) :
                              analysis.ratios[k].ratio_name = name}) = 1

(***************************************************************************)
(* C29.  For the lower-is-better solvency ratios debt_to_equity_ratio and  *)
(* debt_ratio, decreasing the value never worsens the status: for values   *)
(* v1 <= v2 the status of v1 is at least as good as the status of v2, a    *)
(* value at or below the "excellent" threshold is "excellent" and a value  *)
(* above the "critical" threshold is "critical".                           *)
(***************************************************************************)
C29_LowerValueNeverWorse ==
    (/\ Len(ratio_statuses) = 2
     /\ ratio_name \in {"debt_to_equity_ratio", "debt_ratio"})
        => LET t == RatioConfigs[ratio_name].thresholds
           IN  /\ ratio_values[1] <= ratio_values[2] =>
                      StatusRank(ratio_statuses[1]) >= StatusRank(ratio_statuses[2])
               /\ \A k \in 1..2 :
                     /\ ratio_values[k] <= t.excellent => ratio_statuses[k] = "excellent"
                     /\ ratio_values[k] > t.critical => ratio_statuses[k] = "critical"

(***************************************************************************)
(* C30.  The severity of an isolation-forest anomaly depends on how        *)
(* negative its anomaly score is: a point with a score below -0.3 is       *)
(* reported with severity "high", a point with a score below -0.2 (and not *)
(* below -0.3) with "medium", and any other flagged point with "low".      *)
(***************************************************************************)
SeverityOfForestScore(score) ==
    IF ScoreLt(score, Frac(-3, 10)) THEN "high"
    ELSE IF ScoreLt(score, Frac(-2, 10)) THEN "medium" ELSE "low"

C30_ForestSeverityFromScore ==
    (canonical # NoResult /\ ~anomaly_result.none) =>
        LET buckets == Buckets(Monthly(canonical))
        IN  \A i \in 1..Len(anomaly_result.flagged) :
                \A b \in 1..Len(buckets) :
                    LET f == anomaly_result.flagged[i]
                    IN  (f.method = "isolation_forest" /\ f.bucket = buckets[b]) =>
                            f.severity =
                                SeverityOfForestScore(anomaly_result.forests[b].anomaly_score)

====
